---- MODULE Spec2Model ----
(***************************************************************************)
(* Model of the obsidian-pandoc export pipeline: the frontmatter compiler  *)
(* (convertYamlToPandocArgs in main.ts for the markdown export path and in *)
(* renderer.ts for the HTML export path), the option validator             *)
(* (pandoc-options.ts), the path resolver (resolveFilePath, both copies)   *)
(* and the argument vector built by pandoc() in pandoc.ts.                 *)
(*                                                                         *)
(* Strings are TLA+ strings; JavaScript values are records                 *)
(*   [t |-> kind, s |-> String(value), a |-> array items].                 *)
(***************************************************************************)
EXTENDS Integers, Sequences, FiniteSets, TLC

VARIABLES
    exportFrom,       \* settings.exportFrom: "md" or "html"
    templateFolder,   \* settings.templateFolder
    extraArguments,   \* settings.extraArguments (one string, lines split on \n)
    files,            \* the file system: the set of paths that exist
    metadata,         \* the parsed header of the active document (Object.entries order)
    pc,               \* position of the export: idle, compile, pandoc, spawned, done
    format,           \* the output format of the running export
    cliArgs,          \* documentArgs compiled from the header
    cleanedMetadata,  \* header fields that are not tool directives
    notices,          \* diagnostics shown to the user (new Notice(...))
    args,             \* argument vector handed to spawn()
    origin,           \* ghost: for each element of args, where it comes from
    embeds,           \* for each note of the vault, the notes its embed spans point to
    stack,            \* the nested render() calls: inputFile, parentFiles, spans left
    spliced,          \* ghost: what each embed span was replaced by, in order
    pdflatex,         \* settings.pdflatex
    envPATH,          \* process.env.PATH
    outFile,          \* output.file of the running pandoc() call
    child,            \* the spawned subprocess: what it will do and has yet to deliver
    result,           \* pandoc(): stdout text collected so far
    error,            \* pandoc(): stderr text collected so far
    promise,          \* the promise pandoc() returned: state, value, times settled
    uncaught,         \* exceptions that no handler of the plugin caught
    spawns,           \* ghost: the PATH that each spawn() so far was given
    exports,          \* ghost: exports finished so far
    markdown,         \* the text of the active document, when the header is read from it
    pandocSetting,    \* settings.pandoc
    features,         \* this.features: the paths of pandoc and pdflatex ("" for undefined)
    binaryMapInitialized,
    everFoundPandoc,
    cachedPandocPath, \* "" for undefined
    calls,            \* the calls of createBinaryMap: where each is, what it looked up
    assignments,      \* ghost: how often createBinaryMap assigned the binary map
    lastCheck         \* ghost: the last call of currentFileCanBeExported: its input, the
                      \* state it found, its result and the features it left

resolverVars == <<embeds, stack, spliced>>

pluginVars == <<markdown, pandocSetting, features, binaryMapInitialized, everFoundPandoc,
                cachedPandocPath, calls, assignments, lastCheck>>

processVars == <<pdflatex, envPATH, outFile, child, result, error, promise, uncaught,
                 spawns, exports>>

vars == <<exportFrom, templateFolder, extraArguments, files, metadata, pc, format,
          cliArgs, cleanedMetadata, notices, args, origin, resolverVars, pluginVars, processVars>>

-----------------------------------------------------------------------------
(* JavaScript string primitives *)

Char(s, i) == SubSeq(s, i, i)

startsWith(s, p) == Len(s) >= Len(p) /\ SubSeq(s, 1, Len(p)) = p

endsWith(s, p) == Len(s) >= Len(p) /\ SubSeq(s, Len(s) - Len(p) + 1, Len(s)) = p

\* s.substring(n)
substring(s, n) == SubSeq(s, n + 1, Len(s))

\* s.includes(sub)
includes(s, sub) == \E i \in 1..(Len(s) - Len(sub) + 1) : SubSeq(s, i, i + Len(sub) - 1) = sub

RECURSIVE indexFrom(_, _, _)
\* the first position at or after i where c occurs in s, 0 when there is none
indexFrom(s, c, i) ==
    IF i + Len(c) - 1 > Len(s) THEN 0
    ELSE IF SubSeq(s, i, i + Len(c) - 1) = c THEN i
    ELSE indexFrom(s, c, i + 1)

\* s.indexOf(c) as a 1-based position, 0 when absent
indexOf(s, c) == indexFrom(s, c, 1)

RECURSIVE join(_, _)
\* array.join(sep) on a sequence of strings
join(seq, sep) ==
    IF Len(seq) = 0 THEN ""
    ELSE IF Len(seq) = 1 THEN seq[1]
    ELSE seq[1] \o sep \o join(Tail(seq), sep)

WhiteSpace == {" ", "\t", "\n", "\r"}
Digits == {"0", "1", "2", "3", "4", "5", "6", "7", "8", "9"}

RECURSIVE trimStart(_)
trimStart(s) ==
    IF Len(s) > 0 /\ Char(s, 1) \in WhiteSpace THEN trimStart(substring(s, 1)) ELSE s

RECURSIVE trimEnd(_)
trimEnd(s) ==
    IF Len(s) > 0 /\ Char(s, Len(s)) \in WhiteSpace
    THEN trimEnd(SubSeq(s, 1, Len(s) - 1)) ELSE s

allIn(s, charset) == \A i \in 1..Len(s) : Char(s, i) \in charset

-----------------------------------------------------------------------------
(* JavaScript values as they come out of YAML.parse *)

Bool(b)  == [t |-> "boolean", s |-> IF b THEN "true" ELSE "false", a |-> <<>>]
Str(x)   == [t |-> "string", s |-> x, a |-> <<>>]
Num(x)   == [t |-> "number", s |-> x, a |-> <<>>]
Null     == [t |-> "null", s |-> "null", a |-> <<>>]
Arr(xs)  == [t |-> "array", s |-> "", a |-> xs]

\* typeof value
typeOf(v) == IF v.t \in {"null", "array"} THEN "object" ELSE v.t

RECURSIVE itemStrings(_)
\* the strings Array.prototype.join sees: null and undefined items become ""
itemStrings(xs) ==
    IF Len(xs) = 0 THEN <<>>
    ELSE <<IF xs[1].t = "null" THEN "" ELSE xs[1].s>> \o itemStrings(Tail(xs))

\* String(value), also what a template literal `${value}` yields
toString(v) == IF v.t = "array" THEN join(itemStrings(v.a), ",") ELSE v.s

\* the sign-less part of a StrDecimalLiteral: digits[.digits][e[+-]digits] or Infinity
isUnsignedDecimal(s) ==
    LET e    == IF includes(s, "e") THEN indexOf(s, "e") ELSE indexOf(s, "E")
        mant == IF e = 0 THEN s ELSE SubSeq(s, 1, e - 1)
        expo == IF e = 0 THEN "" ELSE substring(s, e)
        expd == IF Len(expo) > 0 /\ Char(expo, 1) \in {"+", "-"}
                THEN substring(expo, 1) ELSE expo
        dot  == indexOf(mant, ".")
        ip   == IF dot = 0 THEN mant ELSE SubSeq(mant, 1, dot - 1)
        fp   == IF dot = 0 THEN "" ELSE substring(mant, dot)
    IN  \/ s = "Infinity"
        \/ /\ allIn(ip, Digits) /\ allIn(fp, Digits)
           /\ Len(ip) + Len(fp) > 0
           /\ e # 0 => (Len(expd) > 0 /\ allIn(expd, Digits))

\* isNaN(Number(s)) for a string s
numberIsNaN(str) ==
    LET s == trimEnd(trimStart(str))
        u == IF Len(s) > 0 /\ Char(s, 1) \in {"+", "-"} THEN substring(s, 1) ELSE s
    IN  ~ \/ s = ""
          \/ isUnsignedDecimal(u)
          \/ /\ Len(s) > 2
             /\ \/ /\ SubSeq(s, 1, 2) \in {"0x", "0X"}
                   /\ allIn(substring(s, 2), Digits \cup {"a", "b", "c", "d", "e", "f",
                                                          "A", "B", "C", "D", "E", "F"})
                \/ /\ SubSeq(s, 1, 2) \in {"0o", "0O"}
                   /\ allIn(substring(s, 2), {"0", "1", "2", "3", "4", "5", "6", "7"})
                \/ /\ SubSeq(s, 1, 2) \in {"0b", "0B"}
                   /\ allIn(substring(s, 2), {"0", "1"})

\* isNaN(parseFloat(s)): parseFloat reads the longest numeric prefix
parseFloatIsNaN(str) ==
    LET s == trimStart(str)
        u == IF Len(s) > 0 /\ Char(s, 1) \in {"+", "-"} THEN substring(s, 1) ELSE s
    IN  ~ \/ startsWith(u, "Infinity")
          \/ Len(u) >= 1 /\ Char(u, 1) \in Digits
          \/ Len(u) >= 2 /\ Char(u, 1) = "." /\ Char(u, 2) \in Digits

\* isNaN(value) for a value that is not passed through parseFloat
isNaN(v) ==
    CASE v.t = "number"  -> v.s = "NaN"
      [] v.t = "boolean" -> FALSE
      [] v.t = "null"    -> FALSE
      [] v.t = "array"   -> numberIsNaN(toString(v))
      [] OTHER           -> numberIsNaN(v.s)

-----------------------------------------------------------------------------
(* pandoc-options.ts *)

Schema(type, flagOnly, hasChoices, choices, allowMultiple) ==
    [type |-> type, flagOnly |-> flagOnly, hasChoices |-> hasChoices,
     choices |-> choices, allowMultiple |-> allowMultiple]

PANDOC_OPTIONS ==
       "from" :> Schema("choice", FALSE, TRUE, <<"markdown", "commonmark", "docx", "csv", "html", "json", "latex", "odt">>, FALSE)
    @@ "read" :> Schema("choice", FALSE, TRUE, <<"markdown", "commonmark", "docx", "csv", "html", "json", "latex", "odt">>, FALSE)
    @@ "to" :> Schema("choice", FALSE, TRUE, <<"asciidoc", "beamer", "commonmark_x", "docx", "epub", "html", "pdf", "json", "latex", "odt", "pptx", "revealjs", "rtf", "docuwiki", "mediawiki">>, FALSE)
    @@ "write" :> Schema("choice", FALSE, TRUE, <<"asciidoc", "beamer", "commonmark_x", "docx", "epub", "html", "pdf", "json", "latex", "odt", "pptx", "revealjs", "rtf", "docuwiki", "mediawiki">>, FALSE)
    @@ "output" :> Schema("file", FALSE, FALSE, <<>>, FALSE)
    @@ "data-dir" :> Schema("file", FALSE, FALSE, <<>>, FALSE)
    @@ "metadata" :> Schema("string", FALSE, FALSE, <<>>, TRUE)
    @@ "metadata-file" :> Schema("file", FALSE, FALSE, <<>>, TRUE)
    @@ "defaults" :> Schema("file", FALSE, FALSE, <<>>, FALSE)
    @@ "file-scope" :> Schema("boolean", FALSE, FALSE, <<>>, FALSE)
    @@ "sandbox" :> Schema("boolean", FALSE, FALSE, <<>>, FALSE)
    @@ "standalone" :> Schema("boolean", FALSE, FALSE, <<>>, FALSE)
    @@ "template" :> Schema("file", FALSE, FALSE, <<>>, FALSE)
    @@ "variable" :> Schema("string", FALSE, FALSE, <<>>, TRUE)
    @@ "variable-json" :> Schema("string", FALSE, FALSE, <<>>, TRUE)
    @@ "wrap" :> Schema("choice", FALSE, TRUE, <<"auto", "none", "preserve">>, FALSE)
    @@ "ascii" :> Schema("boolean", FALSE, FALSE, <<>>, FALSE)
    @@ "toc" :> Schema("boolean", TRUE, FALSE, <<>>, FALSE)
    @@ "table-of-contents" :> Schema("boolean", TRUE, FALSE, <<>>, FALSE)
    @@ "toc-depth" :> Schema("number", FALSE, FALSE, <<>>, FALSE)
    @@ "lof" :> Schema("boolean", TRUE, FALSE, <<>>, FALSE)
    @@ "list-of-figures" :> Schema("boolean", TRUE, FALSE, <<>>, FALSE)
    @@ "lot" :> Schema("boolean", TRUE, FALSE, <<>>, FALSE)
    @@ "list-of-tables" :> Schema("boolean", TRUE, FALSE, <<>>, FALSE)
    @@ "number-sections" :> Schema("boolean", TRUE, FALSE, <<>>, FALSE)
    @@ "number-offset" :> Schema("string", FALSE, FALSE, <<>>, FALSE)
    @@ "top-level-division" :> Schema("choice", FALSE, TRUE, <<"section", "chapter", "part">>, FALSE)
    @@ "extract-media" :> Schema("file", FALSE, FALSE, <<>>, FALSE)
    @@ "resource-path" :> Schema("string", FALSE, FALSE, <<>>, TRUE)
    @@ "include-in-header" :> Schema("file", FALSE, FALSE, <<>>, TRUE)
    @@ "include-before-body" :> Schema("file", FALSE, FALSE, <<>>, TRUE)
    @@ "include-after-body" :> Schema("file", FALSE, FALSE, <<>>, TRUE)
    @@ "no-highlight" :> Schema("boolean", TRUE, FALSE, <<>>, FALSE)
    @@ "highlight-style" :> Schema("string", FALSE, FALSE, <<>>, FALSE)
    @@ "syntax-definition" :> Schema("file", FALSE, FALSE, <<>>, TRUE)
    @@ "dpi" :> Schema("number", FALSE, FALSE, <<>>, FALSE)
    @@ "eol" :> Schema("choice", FALSE, TRUE, <<"crlf", "lf", "native">>, FALSE)
    @@ "columns" :> Schema("number", FALSE, FALSE, <<>>, FALSE)
    @@ "preserve-tabs" :> Schema("boolean", FALSE, FALSE, <<>>, FALSE)
    @@ "tab-stop" :> Schema("number", FALSE, FALSE, <<>>, FALSE)
    @@ "pdf-engine" :> Schema("choice", FALSE, TRUE, <<"pdflatex", "lualatex", "xelatex", "wkhtmltopdf", "weasyprint", "pagedjs-cli", "prince", "context", "pdfroff">>, FALSE)
    @@ "pdf-engine-opt" :> Schema("string", FALSE, FALSE, <<>>, TRUE)
    @@ "reference-doc" :> Schema("file", FALSE, FALSE, <<>>, FALSE)
    @@ "self-contained" :> Schema("boolean", FALSE, FALSE, <<>>, FALSE)
    @@ "embed-resources" :> Schema("boolean", FALSE, FALSE, <<>>, FALSE)
    @@ "link-images" :> Schema("boolean", FALSE, FALSE, <<>>, FALSE)
    @@ "request-header" :> Schema("string", FALSE, FALSE, <<>>, TRUE)
    @@ "no-check-certificate" :> Schema("boolean", FALSE, FALSE, <<>>, FALSE)
    @@ "citeproc" :> Schema("boolean", TRUE, FALSE, <<>>, FALSE)
    @@ "bibliography" :> Schema("file", FALSE, FALSE, <<>>, TRUE)
    @@ "csl" :> Schema("file", FALSE, FALSE, <<>>, FALSE)
    @@ "citation-abbreviations" :> Schema("file", FALSE, FALSE, <<>>, FALSE)
    @@ "natbib" :> Schema("boolean", TRUE, FALSE, <<>>, FALSE)
    @@ "biblatex" :> Schema("boolean", TRUE, FALSE, <<>>, FALSE)
    @@ "mathml" :> Schema("boolean", TRUE, FALSE, <<>>, FALSE)
    @@ "webtex" :> Schema("string", FALSE, FALSE, <<>>, FALSE)
    @@ "mathjax" :> Schema("string", FALSE, FALSE, <<>>, FALSE)
    @@ "katex" :> Schema("string", FALSE, FALSE, <<>>, FALSE)
    @@ "gladtex" :> Schema("boolean", TRUE, FALSE, <<>>, FALSE)
    @@ "abbreviations" :> Schema("file", FALSE, FALSE, <<>>, FALSE)
    @@ "indented-code-classes" :> Schema("string", FALSE, FALSE, <<>>, FALSE)
    @@ "default-image-extension" :> Schema("string", FALSE, FALSE, <<>>, FALSE)
    @@ "filter" :> Schema("string", FALSE, FALSE, <<>>, TRUE)
    @@ "lua-filter" :> Schema("file", FALSE, FALSE, <<>>, TRUE)
    @@ "shift-heading-level-by" :> Schema("number", FALSE, FALSE, <<>>, FALSE)
    @@ "base-header-level" :> Schema("number", FALSE, FALSE, <<>>, FALSE)
    @@ "track-changes" :> Schema("choice", FALSE, TRUE, <<"accept", "reject", "all">>, FALSE)
    @@ "strip-comments" :> Schema("boolean", FALSE, FALSE, <<>>, FALSE)
    @@ "reference-links" :> Schema("boolean", FALSE, FALSE, <<>>, FALSE)
    @@ "reference-location" :> Schema("choice", FALSE, TRUE, <<"block", "section", "document">>, FALSE)
    @@ "css" :> Schema("file", FALSE, FALSE, <<>>, TRUE)
    @@ "epub-subdirectory" :> Schema("string", FALSE, FALSE, <<>>, FALSE)
    @@ "epub-cover-image" :> Schema("file", FALSE, FALSE, <<>>, FALSE)
    @@ "epub-title-page" :> Schema("boolean", FALSE, FALSE, <<>>, FALSE)
    @@ "epub-metadata" :> Schema("file", FALSE, FALSE, <<>>, FALSE)
    @@ "epub-embed-font" :> Schema("file", FALSE, FALSE, <<>>, TRUE)
    @@ "split-level" :> Schema("number", FALSE, FALSE, <<>>, FALSE)
    @@ "chunk-template" :> Schema("file", FALSE, FALSE, <<>>, FALSE)
    @@ "epub-chapter-level" :> Schema("number", FALSE, FALSE, <<>>, FALSE)
    @@ "ipynb-output" :> Schema("choice", FALSE, TRUE, <<"all", "none", "best">>, FALSE)
    @@ "slide-level" :> Schema("number", FALSE, FALSE, <<>>, FALSE)
    @@ "section-divs" :> Schema("boolean", FALSE, FALSE, <<>>, FALSE)
    @@ "html-q-tags" :> Schema("boolean", FALSE, FALSE, <<>>, FALSE)
    @@ "email-obfuscation" :> Schema("choice", FALSE, TRUE, <<"none", "javascript", "references">>, FALSE)
    @@ "id-prefix" :> Schema("string", FALSE, FALSE, <<>>, FALSE)
    @@ "title-prefix" :> Schema("string", FALSE, FALSE, <<>>, FALSE)
    @@ "listings" :> Schema("boolean", FALSE, FALSE, <<>>, FALSE)
    @@ "incremental" :> Schema("boolean", FALSE, FALSE, <<>>, FALSE)
    @@ "figure-caption-position" :> Schema("choice", FALSE, TRUE, <<"above", "below">>, FALSE)
    @@ "table-caption-position" :> Schema("choice", FALSE, TRUE, <<"above", "below">>, FALSE)
    @@ "markdown-headings" :> Schema("choice", FALSE, TRUE, <<"setext", "atx">>, FALSE)
    @@ "list-tables" :> Schema("boolean", FALSE, FALSE, <<>>, FALSE)
    @@ "trace" :> Schema("boolean", FALSE, FALSE, <<>>, FALSE)
    @@ "dump-args" :> Schema("boolean", FALSE, FALSE, <<>>, FALSE)
    @@ "ignore-args" :> Schema("boolean", FALSE, FALSE, <<>>, FALSE)
    @@ "verbose" :> Schema("boolean", TRUE, FALSE, <<>>, FALSE)
    @@ "quiet" :> Schema("boolean", TRUE, FALSE, <<>>, FALSE)
    @@ "fail-if-warnings" :> Schema("boolean", FALSE, FALSE, <<>>, FALSE)
    @@ "log" :> Schema("file", FALSE, FALSE, <<>>, FALSE)
    @@ "version" :> Schema("boolean", TRUE, FALSE, <<>>, FALSE)
    @@ "help" :> Schema("boolean", TRUE, FALSE, <<>>, FALSE)
    @@ "list-input-formats" :> Schema("boolean", TRUE, FALSE, <<>>, FALSE)
    @@ "list-output-formats" :> Schema("boolean", TRUE, FALSE, <<>>, FALSE)
    @@ "list-extensions" :> Schema("string", FALSE, FALSE, <<>>, FALSE)
    @@ "list-highlight-languages" :> Schema("boolean", TRUE, FALSE, <<>>, FALSE)
    @@ "list-highlight-styles" :> Schema("boolean", TRUE, FALSE, <<>>, FALSE)
    @@ "print-default-template" :> Schema("string", FALSE, FALSE, <<>>, FALSE)
    @@ "print-default-data-file" :> Schema("file", FALSE, FALSE, <<>>, FALSE)
    @@ "print-highlight-style" :> Schema("string", FALSE, FALSE, <<>>, FALSE)
    @@ "bash-completion" :> Schema("boolean", TRUE, FALSE, <<>>, FALSE)

FILE_PATH_ARGUMENTS ==
    {"template", "css", "bibliography", "csl", "reference-doc", "reference-odt",
     "reference-docx", "epub-cover-image", "epub-stylesheet", "include-in-header",
     "include-before-body", "include-after-body", "lua-filter", "filter",
     "metadata-file", "abbreviations", "syntax-definition", "defaults",
     "data-dir", "extract-media", "output", "epub-metadata", "epub-embed-font",
     "chunk-template", "citation-abbreviations", "log", "print-default-data-file"}

Valid == [isValid |-> TRUE, error |-> ""]
Invalid(msg) == [isValid |-> FALSE, error |-> msg]

seqIncludes(seq, x) == \E i \in 1..Len(seq) : seq[i] = x

\* faulty variant: a name the catalogue does not hold is rejected
validatePandocOptionRejectsUnknown(optionName, value) ==
    IF optionName \notin DOMAIN PANDOC_OPTIONS
    THEN Invalid("Option '" \o optionName \o "' is unknown")
    ELSE Valid

\* faulty variant: a boolean option is only tested for the type of its value
validatePandocOptionNoFlagOnlyTest(optionName, value) ==
    IF optionName \in DOMAIN PANDOC_OPTIONS
       /\ PANDOC_OPTIONS[optionName].type = "boolean" /\ typeOf(value) # "boolean"
    THEN Invalid("Option '" \o optionName \o "' expects a boolean value, got '"
                 \o typeOf(value) \o "'")
    ELSE Valid

validatePandocOption(optionName, value) ==
    IF optionName \notin DOMAIN PANDOC_OPTIONS THEN Valid
    ELSE LET schema == PANDOC_OPTIONS[optionName] IN
      CASE schema.type = "boolean" ->
             IF schema.flagOnly /\ value # Bool(TRUE)
             THEN Invalid("Option '" \o optionName
                          \o "' is flag-only and should be set to true, not '"
                          \o toString(value) \o "'")
             ELSE IF typeOf(value) # "boolean"
             THEN Invalid("Option '" \o optionName \o "' expects a boolean value, got '"
                          \o typeOf(value) \o "'")
             ELSE Valid
        [] schema.type = "choice" /\ schema.hasChoices ->
             IF typeOf(value) # "string" \/ ~seqIncludes(schema.choices, value.s)
             THEN Invalid("Option '" \o optionName \o "' must be one of: "
                          \o join(schema.choices, ", ") \o ". Got '"
                          \o toString(value) \o "'")
             ELSE Valid
        [] schema.type = "number" ->
             IF (IF typeOf(value) = "string" THEN parseFloatIsNaN(value.s) ELSE isNaN(value))
             THEN Invalid("Option '" \o optionName \o "' expects a number, got '"
                          \o toString(value) \o "'")
             ELSE Valid
        [] schema.type \in {"string", "file"} ->
             IF typeOf(value) # "string"
             THEN Invalid("Option '" \o optionName \o "' expects a string, got '"
                          \o typeOf(value) \o "'")
             ELSE Valid
        [] OTHER -> Valid

\* faulty variant: the value is compared with the string "true"
isFlagOnlyOptionOfString(optionName, value) ==
    /\ optionName \in DOMAIN PANDOC_OPTIONS
    /\ PANDOC_OPTIONS[optionName].flagOnly = TRUE
    /\ value = Str("true")

isFlagOnlyOption(optionName, value) ==
    /\ optionName \in DOMAIN PANDOC_OPTIONS
    /\ PANDOC_OPTIONS[optionName].flagOnly = TRUE
    /\ value = Bool(TRUE)

-----------------------------------------------------------------------------
(* Node's path module (posix), as used by the resolvers *)

isAbsolute(p) == Len(p) > 0 /\ Char(p, 1) = "/"

RECURSIVE split(_, _)
\* s.split(sep) for a one-character separator
split(s, sep) ==
    LET i == indexOf(s, sep)
    IN  IF i = 0 THEN <<s>> ELSE <<SubSeq(s, 1, i - 1)>> \o split(substring(s, i), sep)

RECURSIVE normalizeSegments(_, _)
\* drops "" and ".", and lets ".." remove the segment before it
normalizeSegments(segs, acc) ==
    IF Len(segs) = 0 THEN acc
    ELSE IF segs[1] \in {"", "."} THEN normalizeSegments(Tail(segs), acc)
    ELSE IF segs[1] = ".."
         THEN normalizeSegments(Tail(segs),
                                IF Len(acc) = 0 THEN acc ELSE SubSeq(acc, 1, Len(acc) - 1))
    ELSE normalizeSegments(Tail(segs), Append(acc, segs[1]))

processCwd == "/"

RECURSIVE resolveFrom(_, _)
\* path.resolve scans its arguments right to left until the path is absolute
resolveFrom(parts, acc) ==
    IF isAbsolute(acc) THEN acc
    ELSE IF Len(parts) = 0 THEN processCwd \o "/" \o acc
    ELSE LET p == parts[Len(parts)]
             rest == SubSeq(parts, 1, Len(parts) - 1)
         IN  IF p = "" THEN resolveFrom(rest, acc)
             ELSE resolveFrom(rest, IF acc = "" THEN p ELSE p \o "/" \o acc)

\* path.resolve(...parts)
pathResolve(parts) ==
    "/" \o join(normalizeSegments(split(resolveFrom(parts, ""), "/"), <<>>), "/")

\* path.dirname(p) for an absolute file path
dirname(p) ==
    LET segs == normalizeSegments(split(p, "/"), <<>>)
    IN  "/" \o join(SubSeq(segs, 1, Len(segs) - 1), "/")

\* fileExists of global.ts: whether a file is at the path
fileExists(p) == p \in files

-----------------------------------------------------------------------------
(* main.ts: the resolver and the compiler of the markdown export path *)

RECURSIVE firstExistingIn(_, _, _)
\* the loop over commonDirs: the first directory that holds the file, else the reference
firstExistingIn(dirs, vaultBasePath, filePath) ==
    IF Len(dirs) = 0 THEN filePath
    ELSE LET templatePath == pathResolve(<<vaultBasePath, dirs[1], filePath>>)
         IN  IF fileExists(templatePath) THEN templatePath
             ELSE firstExistingIn(Tail(dirs), vaultBasePath, filePath)

commonDirs == <<"templates", "Templates", "_templates", "pandoc", ".pandoc", "assets">>

\* faulty variant: the custom template folder is not searched
resolveFilePathNoCustomFolder(filePath, currentFileDir, vaultBasePath) ==
    LET relativeToCurrent == pathResolve(<<currentFileDir, filePath>>)
        relativeToVault   == pathResolve(<<vaultBasePath, filePath>>)
    IN  IF isAbsolute(filePath) THEN filePath
        ELSE IF fileExists(relativeToCurrent) THEN relativeToCurrent
        ELSE IF fileExists(relativeToVault) THEN relativeToVault
        ELSE firstExistingIn(commonDirs, vaultBasePath, filePath)

\* faulty variant: an absolute path is searched for like any other reference
resolveFilePathNoAbsoluteTest(filePath, currentFileDir, vaultBasePath) ==
    LET relativeToCurrent == pathResolve(<<currentFileDir, filePath>>)
        relativeToVault   == pathResolve(<<vaultBasePath, filePath>>)
    IN  IF fileExists(relativeToCurrent) THEN relativeToCurrent
        ELSE IF fileExists(relativeToVault) THEN relativeToVault
        ELSE filePath

resolveFilePath(filePath, currentFileDir, vaultBasePath) ==
    LET relativeToCurrent == pathResolve(<<currentFileDir, filePath>>)
        relativeToVault   == pathResolve(<<vaultBasePath, filePath>>)
        customPath == IF isAbsolute(templateFolder)
                      THEN pathResolve(<<templateFolder, filePath>>)
                      ELSE pathResolve(<<vaultBasePath, templateFolder, filePath>>)
    IN  IF isAbsolute(filePath) THEN filePath
        ELSE IF fileExists(relativeToCurrent) THEN relativeToCurrent
        ELSE IF fileExists(relativeToVault) THEN relativeToVault
        ELSE IF templateFolder # "" /\ fileExists(customPath) THEN customPath
        ELSE firstExistingIn(commonDirs, vaultBasePath, filePath)

mainFILE_PATH_ARGUMENTS ==
    {"template", "css", "bibliography", "csl", "reference-doc", "reference-odt",
     "reference-docx", "epub-cover-image", "epub-stylesheet", "include-in-header",
     "include-before-body", "include-after-body", "lua-filter", "filter",
     "metadata-file", "abbreviations", "syntax-definition"}

RECURSIVE convertItems(_, _, _, _)
\* the loop over the items of an array value (main.ts)
convertItems(argName, items, currentFileDir, vaultBasePath) ==
    IF Len(items) = 0 THEN <<>>
    ELSE LET item == items[1]
             resolvedValue == IF argName \in mainFILE_PATH_ARGUMENTS
                              THEN resolveFilePath(toString(item), currentFileDir, vaultBasePath)
                              ELSE toString(item)
             rest == convertItems(argName, Tail(items), currentFileDir, vaultBasePath)
         IN  IF item.t # "null"
             THEN <<"--" \o argName \o "=" \o resolvedValue>> \o rest
             ELSE rest

\* the branch of the loop body for a key that starts with pandoc- (main.ts):
\* the tokens the directive adds to cliArgs
convertDirective(key, value, currentFileDir, vaultBasePath) ==
    LET argName == substring(key, 7)
        resolvedValue == IF argName \in mainFILE_PATH_ARGUMENTS
                         THEN resolveFilePath(toString(value), currentFileDir, vaultBasePath)
                         ELSE toString(value)
    IN  IF value = Bool(TRUE) THEN <<"--" \o argName>>
        ELSE IF value = Bool(FALSE) \/ value.t = "null" THEN <<>>
        ELSE IF value.t = "array"
             THEN convertItems(argName, value.a, currentFileDir, vaultBasePath)
        ELSE <<"--" \o argName \o "=" \o resolvedValue>>

\* faulty variant: the prefix is tested without its dash
convertFieldLoosePrefix(key, value, currentFileDir, vaultBasePath) ==
    IF startsWith(key, "pandoc")
    THEN [cleanedMetadata |-> <<>>,
          cliArgs |-> convertDirective(key, value, currentFileDir, vaultBasePath)]
    ELSE [cleanedMetadata |-> <<[key |-> key, value |-> value]>>,
          cliArgs |-> <<>>]

\* one iteration of the loop over Object.entries(metadata) (main.ts):
\* what the field adds to cleanedMetadata and to cliArgs
convertField(key, value, currentFileDir, vaultBasePath) ==
    IF startsWith(key, "pandoc-")
    THEN [cleanedMetadata |-> <<>>,
          cliArgs |-> convertDirective(key, value, currentFileDir, vaultBasePath)]
    ELSE [cleanedMetadata |-> <<[key |-> key, value |-> value]>>,
          cliArgs |-> <<>>]

\* what one iteration leaves, followed by what the later iterations leave
thenRest(f, rest) == [k \in DOMAIN f |-> f[k] \o rest[k]]

RECURSIVE convertYamlToPandocArgs(_, _, _)
convertYamlToPandocArgs(entries, currentFileDir, vaultBasePath) ==
    IF Len(entries) = 0 THEN [cleanedMetadata |-> <<>>, cliArgs |-> <<>>]
    ELSE thenRest(convertField(entries[1].key, entries[1].value, currentFileDir,
                               vaultBasePath),
                  convertYamlToPandocArgs(Tail(entries), currentFileDir, vaultBasePath))

-----------------------------------------------------------------------------
(* renderer.ts: the resolver and the compiler of the HTML export path *)

rendererCommonDirs == <<"templates", "Templates", "_templates", "pandoc", "assets">>

rendererResolveFilePath(filePath, currentFileDir, vaultBasePath, customTemplateFolder) ==
    LET relativeToCurrent == pathResolve(<<currentFileDir, filePath>>)
        relativeToVault   == pathResolve(<<vaultBasePath, filePath>>)
        customPath == IF isAbsolute(customTemplateFolder)
                      THEN pathResolve(<<customTemplateFolder, filePath>>)
                      ELSE pathResolve(<<vaultBasePath, customTemplateFolder, filePath>>)
    IN  IF isAbsolute(filePath) THEN filePath
        ELSE IF fileExists(relativeToCurrent) THEN relativeToCurrent
        ELSE IF fileExists(relativeToVault) THEN relativeToVault
        ELSE IF customTemplateFolder # "" /\ fileExists(customPath) THEN customPath
        ELSE firstExistingIn(rendererCommonDirs, vaultBasePath, filePath)

RECURSIVE rendererConvertItems(_, _, _, _, _, _)
\* the loop over the items of an array value (renderer.ts): tokens and notices
rendererConvertItems(key, argName, items, currentFileDir, vaultBasePath, customTemplateFolder) ==
    IF Len(items) = 0 THEN [cliArgs |-> <<>>, notices |-> <<>>]
    ELSE LET item == items[1]
             itemValidation == validatePandocOption(argName, item)
             resolvedValue ==
                 IF argName \in FILE_PATH_ARGUMENTS
                 THEN rendererResolveFilePath(toString(item), currentFileDir, vaultBasePath,
                                              customTemplateFolder)
                 ELSE toString(item)
             rest == rendererConvertItems(key, argName, Tail(items), currentFileDir,
                                          vaultBasePath, customTemplateFolder)
         IN  IF item.t = "null" THEN rest
             ELSE IF ~itemValidation.isValid
             THEN [cliArgs |-> rest.cliArgs,
                   notices |-> <<"Pandoc argument validation error for " \o key \o "[]: "
                                 \o itemValidation.error>> \o rest.notices]
             ELSE [cliArgs |-> <<"--" \o argName \o "=" \o resolvedValue>> \o rest.cliArgs,
                   notices |-> rest.notices]

\* the branch of the loop body for a key that starts with pandoc- (renderer.ts):
\* the tokens and the notices of the directive
rendererConvertDirective(key, value, currentFileDir, vaultBasePath, customTemplateFolder) ==
    LET argName == substring(key, 7)
        validation == validatePandocOption(argName, value)
        resolvedValue ==
            IF argName \in FILE_PATH_ARGUMENTS
            THEN rendererResolveFilePath(toString(value), currentFileDir, vaultBasePath,
                                         customTemplateFolder)
            ELSE toString(value)
    IN  IF ~validation.isValid
        THEN [cliArgs |-> <<>>,
              notices |-> <<"Pandoc argument validation error: " \o validation.error>>]
        ELSE IF value = Bool(FALSE) \/ value.t = "null"
        THEN [cliArgs |-> <<>>, notices |-> <<>>]
        ELSE IF value = Bool(TRUE)
        THEN [cliArgs |-> IF isFlagOnlyOption(argName, value)
                          THEN <<"--" \o argName>>
                          ELSE <<"--" \o argName \o "=true">>,
              notices |-> <<>>]
        ELSE IF value.t = "array"
        THEN rendererConvertItems(key, argName, value.a, currentFileDir, vaultBasePath,
                                  customTemplateFolder)
        ELSE [cliArgs |-> <<"--" \o argName \o "=" \o resolvedValue>>, notices |-> <<>>]

\* one iteration of the loop over Object.entries(metadata) (renderer.ts):
\* what the field adds to cleanedMetadata, to cliArgs and to the notices
rendererConvertField(key, value, currentFileDir, vaultBasePath, customTemplateFolder) ==
    IF startsWith(key, "pandoc-")
    THEN [cleanedMetadata |-> <<>>]
         @@ rendererConvertDirective(key, value, currentFileDir, vaultBasePath,
                                     customTemplateFolder)
    ELSE [cleanedMetadata |-> <<[key |-> key, value |-> value]>>,
          cliArgs |-> <<>>, notices |-> <<>>]

RECURSIVE rendererConvertYamlToPandocArgs(_, _, _, _)
rendererConvertYamlToPandocArgs(entries, currentFileDir, vaultBasePath, customTemplateFolder) ==
    IF Len(entries) = 0
    THEN [cleanedMetadata |-> <<>>, cliArgs |-> <<>>, notices |-> <<>>]
    ELSE thenRest(rendererConvertField(entries[1].key, entries[1].value, currentFileDir,
                                       vaultBasePath, customTemplateFolder),
                  rendererConvertYamlToPandocArgs(Tail(entries), currentFileDir,
                                                  vaultBasePath, customTemplateFolder))

-----------------------------------------------------------------------------
(* pandoc.ts *)

needsLaTeX(fmt) == fmt = "pdf"

needsPandoc(fmt) == fmt # "html"

needsStandaloneFlag(output) ==
    \/ endsWith(output.file, "html")
    \/ output.format \in {"html", "revealjs", "latex", "beamer"}

RECURSIVE closingQuote(_, _, _)
\* position of the next occurrence of quote q at or after p, 0 when there is none
closingQuote(s, p, q) ==
    IF p > Len(s) THEN 0
    ELSE IF Char(s, p) = q THEN p
    ELSE closingQuote(s, p + 1, q)

RECURSIVE matchEnd(_, _)
\* the regular expression /(?:[^\s"']+|"[^"]*"|'[^']*')+/ tried at position p:
\* the position after the longest match, p itself when nothing matches there
matchEnd(s, p) ==
    IF p > Len(s) THEN p
    ELSE LET c == Char(s, p)
         IN  IF c \in WhiteSpace THEN p
             ELSE IF c \in {"\"", "'"}
                  THEN LET q == closingQuote(s, p + 1, c)
                       IN  IF q = 0 THEN p ELSE matchEnd(s, q + 1)
             ELSE matchEnd(s, p + 1)

\* faulty variant: the match is pushed as it was written, quotes included
parsedArgKeepsQuotes(arg) == arg

\* what the loop body of parseArgumentString makes of one match
parsedArg(arg) ==
    LET i        == indexOf(arg, "=")
        flagPart == SubSeq(arg, 1, i - 1)
        value    == substring(arg, i)
        quoted   == \/ startsWith(value, "\"") /\ endsWith(value, "\"")
                    \/ startsWith(value, "'") /\ endsWith(value, "'")
    IN  IF i # 0
        THEN flagPart \o "=" \o (IF quoted THEN SubSeq(value, 2, Len(value) - 1) ELSE value)
        ELSE arg

RECURSIVE regexExec(_, _)
\* the successive matches of the global regular expression from position p on
regexExec(s, p) ==
    IF p > Len(s) THEN <<>>
    ELSE LET e == matchEnd(s, p)
         IN  IF e = p THEN regexExec(s, p + 1)
             ELSE <<parsedArg(SubSeq(s, p, e - 1))>> \o regexExec(s, e)

parseArgumentString(argString) == regexExec(argString, 1)

RECURSIVE flatMapParse(_)
\* extraParams.flatMap(x => parseArgumentString(x)).filter(x => x.length)
flatMapParse(extraParams) ==
    IF Len(extraParams) = 0 THEN <<>>
    ELSE SelectSeq(parseArgumentString(extraParams[1]), LAMBDA x : Len(x) > 0)
         \o flatMapParse(Tail(extraParams))

From(seq, from) == [i \in 1..Len(seq) |-> from]

someIncludes(seq, sub) == \E i \in 1..Len(seq) : includes(seq[i], sub)

\* faulty variant: the per-document arguments are pushed before the extra parameters
pandocArgsDocumentFirst(input, output, extraParams, lualatex, xelatex) ==
    LET stdin  == input.file = "STDIN"
        stdout == output.file = "STDOUT"
        hasUserPdfEngine == \/ someIncludes(extraParams, "--pdf-engine")
                            \/ someIncludes(input.documentArgs, "--pdf-engine")
        base == (IF input.format # "" THEN <<"--from", input.format>> ELSE <<>>)
             \o (IF output.format # "" THEN <<"--to", output.format>> ELSE <<>>)
             \o (IF needsStandaloneFlag(output) THEN <<"-s">> ELSE <<>>)
             \o (IF ~stdout THEN <<"-o", output.file>> ELSE <<"-o", "-">>)
             \o (IF output.format = "pdf" /\ ~hasUserPdfEngine
                 THEN IF lualatex THEN <<"--pdf-engine=lualatex">>
                      ELSE IF xelatex THEN <<"--pdf-engine=xelatex">>
                      ELSE <<>>
                 ELSE <<>>)
             \o (IF ~stdin THEN <<input.file>> ELSE <<>>)
             \o (IF input.metadataFile # "" THEN <<"--metadata-file", input.metadataFile>>
                 ELSE <<>>)
        extra == flatMapParse(extraParams)
    IN  [args   |-> base \o input.documentArgs \o extra,
         origin |-> From(base, "base") \o From(input.documentArgs, "doc")
                    \o From(extra, "extra")]

\* faulty variant: the per-document arguments are parsed again like a command line
pandocArgsReparsed(input, output, extraParams, lualatex, xelatex) ==
    LET stdin  == input.file = "STDIN"
        stdout == output.file = "STDOUT"
        hasUserPdfEngine == \/ someIncludes(extraParams, "--pdf-engine")
                            \/ someIncludes(input.documentArgs, "--pdf-engine")
        base == (IF input.format # "" THEN <<"--from", input.format>> ELSE <<>>)
             \o (IF output.format # "" THEN <<"--to", output.format>> ELSE <<>>)
             \o (IF needsStandaloneFlag(output) THEN <<"-s">> ELSE <<>>)
             \o (IF ~stdout THEN <<"-o", output.file>> ELSE <<"-o", "-">>)
             \o (IF output.format = "pdf" /\ ~hasUserPdfEngine
                 THEN IF lualatex THEN <<"--pdf-engine=lualatex">>
                      ELSE IF xelatex THEN <<"--pdf-engine=xelatex">>
                      ELSE <<>>
                 ELSE <<>>)
             \o (IF ~stdin THEN <<input.file>> ELSE <<>>)
             \o (IF input.metadataFile # "" THEN <<"--metadata-file", input.metadataFile>>
                 ELSE <<>>)
        extra == flatMapParse(extraParams)
        doc == flatMapParse(input.documentArgs)
    IN  [args   |-> base \o extra \o doc,
         origin |-> From(base, "base") \o From(extra, "extra") \o From(doc, "doc")]

\* the argument list pandoc() constructs, and for each of its elements the place it
\* comes from: "base" (pandoc() itself), "extra" (extraParams), "doc" (documentArgs)
pandocArgs(input, output, extraParams, lualatex, xelatex) ==
    LET stdin  == input.file = "STDIN"
        stdout == output.file = "STDOUT"
        hasUserPdfEngine == \/ someIncludes(extraParams, "--pdf-engine")
                            \/ someIncludes(input.documentArgs, "--pdf-engine")
        base == (IF input.format # "" THEN <<"--from", input.format>> ELSE <<>>)
             \o (IF output.format # "" THEN <<"--to", output.format>> ELSE <<>>)
             \o (IF needsStandaloneFlag(output) THEN <<"-s">> ELSE <<>>)
             \o (IF ~stdout THEN <<"-o", output.file>> ELSE <<"-o", "-">>)
             \o (IF output.format = "pdf" /\ ~hasUserPdfEngine
                 THEN IF lualatex THEN <<"--pdf-engine=lualatex">>
                      ELSE IF xelatex THEN <<"--pdf-engine=xelatex">>
                      ELSE <<>>
                 ELSE <<>>)
             \o (IF ~stdin THEN <<input.file>> ELSE <<>>)
             \o (IF input.metadataFile # "" THEN <<"--metadata-file", input.metadataFile>>
                 ELSE <<>>)
        extra == flatMapParse(extraParams)
    IN  [args   |-> base \o extra \o input.documentArgs,
         origin |-> From(base, "base") \o From(extra, "extra")
                    \o From(input.documentArgs, "doc")]

-----------------------------------------------------------------------------
(* The documents, vaults and settings explored *)

MaxFields == 2    \* fields in a header
MaxFiles  == 2    \* files in the vault that a reference can resolve to

inputFile == "/v/notes/doc.md"
vaultBasePath == "/v"
metadataFile == "/tmp/meta.yaml"

Field(k, v) == [key |-> k, value |-> v]

\* the catalogue of header fields; a header lists some of them in this order
SampleFields ==
    << Field("title", Str("My Paper")),
       Field("pandoc-toc", Bool(TRUE)),
       Field("pandoc-standalone", Bool(TRUE)),
       Field("pandoc-pdf-engine", Str("invalid-engine")),
       Field("pandoc-css", Str("my file.css")),
       Field("pandoc-toc-depth", Str("not-a-number")),
       Field("pandoc-variable", Arr(<<Str("lang=en"), Null, Str("geometry=a4 paper")>>)),
       Field("pandoc-citeproc", Str("true")),
       Field("pandoc", Str("3.1")),
       Field("pandoc-toc", Bool(FALSE)),
       Field("pandoc-standalone", Bool(FALSE)),
       Field("pandoc-pdf-engine", Str("xelatex")),
       Field("pandoc-toc-depth", Num("3")),
       Field("pandoc-css", Arr(<<Str("a.css"), Str("my file.css")>>)),
       Field("pandoc-template", Str("/abs/t.tex")),
       Field("pandoc-frobnicate", Arr(<<Str("x"), Num("2")>>)),
       Field("pandoc-quiet", Null) >>

distinctKeys(h) == \A i, j \in 1..Len(h) : i # j => h[i].key # h[j].key

\* the headers of at most MaxFields fields with distinct keys
Headers ==
    LET picks == UNION { [1..k -> 1..Len(SampleFields)] : k \in 0..MaxFields }
        inOrder(ix) == \A i, j \in 1..Len(ix) : i < j => ix[i] < ix[j]
    IN  { h \in { [i \in 1..Len(ix) |-> SampleFields[ix[i]]] : ix \in { p \in picks : inOrder(p) } } :
            distinctKeys(h) }

SampleVault == { inputFile, "/v/templates/my file.css" }

\* references and the places the resolvers look for them
SampleReferences == { "refs.bib", "my refs.bib" }

SearchDirs ==
    { "/v/notes", "/v", "/v/tpl", "/ext/tpl", "/v/templates", "/v/Templates",
      "/v/_templates", "/v/pandoc", "/v/.pandoc", "/v/assets" }

CandidatePaths(r) == { d \o "/" \o r : d \in SearchDirs }

\* the vaults that hold at most MaxFiles files a reference r can resolve to
Vaults(r) == { fs \in SUBSET CandidatePaths(r) : Cardinality(fs) <= MaxFiles }

SampleTemplateFolders == { "", "tpl", "/ext/tpl" }

SampleExtraArguments ==
    { "",
      "--toc",
      "--css=\"my style.css\" --number-sections\n--pdf-engine=xelatex",
      "--metadata=title='A=B'\n\n-V lang=en" }

\* documents with many kinds of header fields
InitHeaders ==
    /\ metadata \in Headers
    /\ files = SampleVault
    /\ templateFolder = "tpl"
    /\ extraArguments = "--toc"

\* documents with one file reference, in vaults of every layout
InitVaults ==
    /\ \E r \in SampleReferences :
          /\ metadata = <<Field("pandoc-bibliography", Str(r))>>
          /\ \E fs \in Vaults(r) : files = fs \cup {inputFile}
    /\ templateFolder \in SampleTemplateFolders
    /\ extraArguments = ""

\* every setting of the global extra arguments
InitExtraArguments ==
    /\ metadata \in { <<>>,
                      <<Field("pandoc-toc", Bool(TRUE)), Field("pandoc-css", Str("my file.css"))>>,
                      <<Field("pandoc-pdf-engine", Str("xelatex"))>>,
                      <<Field("pandoc-pdf-engine-opt", Str("-shell-escape"))>> }
    /\ files = SampleVault
    /\ templateFolder = ""
    /\ extraArguments \in SampleExtraArguments

\* no pandoc() call has been made in this session
NoChild == [state |-> "none", exit |-> 0, artifact |-> FALSE, stdout |-> <<>>, stderr |-> <<>>]
NoValue == [result |-> "", error |-> "", command |-> ""]
NoPromise == [state |-> "none", value |-> NoValue, settled |-> 0]
NoDocument == ""
NoPlugin ==
    /\ features = [pandoc |-> "", pdflatex |-> ""]
    /\ binaryMapInitialized = FALSE
    /\ everFoundPandoc = FALSE
    /\ cachedPandocPath = ""
    /\ calls = <<>>
    /\ assignments = 0
    /\ lastCheck = [format |-> "", supported |-> FALSE, result |-> FALSE,
                    initialized |-> FALSE, everFound |-> FALSE, pandoc |-> "",
                    pdflatex |-> ""]

NoProcess ==
    /\ envPATH = "/usr/bin"
    /\ outFile = ""
    /\ child = NoChild
    /\ result = ""
    /\ error = ""
    /\ promise = NoPromise
    /\ uncaught = <<>>
    /\ spawns = <<>>
    /\ exports = 0

\* documents with and without a header, closed or not
SampleDocuments ==
    { "# Title\n\ntext",
      "---\ntitle: My Paper\npandoc-toc: true\n---\n\n# Body",
      "\n\n---\npandoc-toc-depth: 3\n---\ntext --- text",
      "---\ntitle: My Paper\n\n# Body",
      "---\n---\n# Body",
      "----\n\n# After a rule" }

\* the header is read from the text of the document (markdown export path)
InitDocuments ==
    /\ markdown \in SampleDocuments
    /\ exportFrom = "md"
    /\ metadata = <<>>
    /\ files = {inputFile}
    /\ templateFolder = ""
    /\ extraArguments = ""

\* the values a header field can hold after YAML parsing
SampleValues ==
    { Bool(TRUE), Bool(FALSE), Null, Num("3"), Str("true"), Str("false"), Str("3"),
      Str("2.5"), Str("3abc"), Str("not-a-number"), Str(""), Str("my file.css") }

\* options of the catalogue (flag-only booleans, a plain boolean, numbers,
\* files) and a name the catalogue does not hold
SampleOptions ==
    { "toc", "citeproc", "number-sections", "standalone", "toc-depth", "columns",
      "defaults", "frobnicate" }

\* documents with one directive, of each sampled option and value
InitValidation ==
    /\ \E n \in SampleOptions, v \in SampleValues :
          metadata = <<Field("pandoc-" \o n, v)>>
    /\ files = SampleVault
    /\ templateFolder = ""
    /\ extraArguments = ""

Init ==
    /\ exportFrom \in {"md", "html"}
    /\ \/ (InitHeaders \/ InitVaults \/ InitExtraArguments \/ InitValidation)
          /\ markdown = NoDocument
       \/ InitDocuments
    /\ pc = "idle"
    /\ format = ""
    /\ cliArgs = <<>>
    /\ cleanedMetadata = <<>>
    /\ notices = <<>>
    /\ args = <<>>
    /\ origin = <<>>
    /\ embeds = <<>>
    /\ stack = <<>>
    /\ spliced = <<>>
    /\ pdflatex = ""
    /\ NoProcess
    /\ NoPlugin
    /\ pandocSetting = ""

-----------------------------------------------------------------------------
(* main.ts: startPandocExport *)

outputFormats ==
    << <<"AsciiDoc (adoc)", "asciidoc", "adoc", "AsciiDoc">>,
       <<"Word Document (docx)", "docx", "docx", "Word">>,
       <<"Pandoc Markdown", "markdown", "pandoc.md", "markdown">>,
       <<"HTML (without Pandoc)", "html", "html", "HTML">>,
       <<"LaTeX", "latex", "tex", "LaTeX">>,
       <<"OpenDocument (odt)", "odt", "odt", "OpenDocument">>,
       <<"PowerPoint (pptx)", "pptx", "pptx", "PowerPoint">>,
       <<"ePub", "epub", "epub", "ePub">>,
       <<"PDF (via LaTeX)", "pdf", "pdf", "PDF">>,
       <<"Reveal.js Slides", "revealjs", "reveal.html", "Reveal.js">>,
       <<"Beamer Slides", "beamer", "beamer.tex", "Beamer">>,
       <<"reStructured Text (RST)", "rst", "rst", "RST">>,
       <<"DokuWiki", "dokuwiki", "txt", "DokuWiki">>,
       <<"MediaWiki", "mediawiki", "mediawiki", "MediaWiki">> >>

\* the export commands explored
SampleFormats == {"docx", "html", "pdf"}

\* replaceFileExtension of global.ts: the path with its last extension replaced
replaceFileExtension(file, extension) ==
    LET parts == split(file, ".")
    IN  join(SubSeq(parts, 1, Len(parts) - 1), ".") \o "." \o extension

\* the output file of the export command of format fmt (settings.outputFolder unset)
outputFile(fmt) ==
    LET row == CHOOSE i \in 1..Len(outputFormats) : outputFormats[i][2] = fmt
    IN  replaceFileExtension(inputFile, outputFormats[row][3])

shortName(fmt) ==
    LET row == CHOOSE i \in 1..Len(outputFormats) : outputFormats[i][2] = fmt
    IN  outputFormats[row][4]

\* path.basename(file, path.extname(file))
fileBaseName(file) ==
    LET segs == split(file, "/")
        parts == split(segs[Len(segs)], ".")
    IN  IF Len(parts) = 1 THEN parts[1] ELSE join(SubSeq(parts, 1, Len(parts) - 1), ".")

\* the command's callback: the export of the active document starts
StartPandocExport ==
    /\ pc = "idle"
    /\ \E fmt \in SampleFormats :
          /\ format' = fmt
          /\ notices' = Append(notices, "Exporting " \o inputFile \o " to " \o shortName(fmt))
    /\ pc' = "convert"
    /\ UNCHANGED <<exportFrom, templateFolder, extraArguments, files, metadata,
                   cliArgs, cleanedMetadata, args, origin>>
    /\ UNCHANGED <<resolverVars, pluginVars, processVars>>

RECURSIVE yamlEntries(_)
\* the entries of a block mapping, one "key: value" a line, the values being
\* plain scalars of YAML's core schema
yamlEntries(lines) ==
    IF Len(lines) = 0 THEN <<>>
    ELSE LET sep  == indexOf(lines[1], ":")
             text == trimStart(substring(lines[1], sep))
         IN  <<Field(SubSeq(lines[1], 1, sep - 1),
                     IF text \in {"", "null", "~"} THEN Null
                     ELSE IF text \in {"true", "false"} THEN Bool(text = "true")
                     ELSE IF ~numberIsNaN(text) THEN Num(text)
                     ELSE Str(text))>>
             \o yamlEntries(Tail(lines))

\* YAML.parse on such a block: null for an empty document, else the mapping
YAMLparse(text) ==
    IF text = "" THEN [t |-> "null", entries |-> <<>>]
    ELSE [t |-> "object", entries |-> yamlEntries(split(text, "\n"))]

getYAMLMetadata(text) ==
    LET md == trimEnd(trimStart(text))
        trailing == substring(md, 3)
        \* trailing.substring(0, -1) is the empty string
        frontmatter == trimEnd(trimStart(SubSeq(trailing, 1, indexOf(trailing, "---") - 1)))
    IN  IF startsWith(md, "---") THEN YAMLparse(frontmatter)
        ELSE [t |-> "object", entries |-> <<>>]

\* case 'md': the header is compiled by main.ts's convertYamlToPandocArgs,
\* of whose result only cliArgs is kept
ConvertMd ==
    /\ pc = "convert"
    /\ exportFrom = "md"
    /\ \E rawMetadata \in {IF markdown = NoDocument
                           THEN [t |-> "object", entries |-> metadata]
                           ELSE getYAMLMetadata(markdown)} :
          IF rawMetadata.t = "object"
          THEN /\ \E r \in {convertYamlToPandocArgs(rawMetadata.entries, dirname(inputFile),
                                                    vaultBasePath)} :
                     /\ cliArgs' = r.cliArgs
                     /\ cleanedMetadata' = r.cleanedMetadata
               /\ metadata' = rawMetadata.entries
               /\ pc' = "pandoc"
               /\ notices' = notices
          ELSE \* Object.entries(null) throws a TypeError, which the catch reports
               /\ notices' = Append(notices, "Pandoc export failed: "
                                             \o "Cannot convert undefined or null to object")
               /\ pc' = "done"
               /\ UNCHANGED <<cliArgs, cleanedMetadata, metadata>>
    /\ UNCHANGED <<exportFrom, templateFolder, extraArguments, files, format, args, origin>>
    /\ UNCHANGED <<resolverVars, pluginVars, processVars>>

\* case 'html': render() compiles the header with renderer.ts's convertYamlToPandocArgs
ConvertHtml ==
    /\ pc = "convert"
    /\ exportFrom = "html"
    /\ \E r \in {rendererConvertYamlToPandocArgs(metadata, dirname(inputFile),
                                                vaultBasePath, templateFolder)} :
          /\ cliArgs' = r.cliArgs
          /\ cleanedMetadata' = r.cleanedMetadata
          /\ notices' = notices \o r.notices
    /\ pc' = "compiled"
    /\ UNCHANGED <<exportFrom, templateFolder, extraArguments, files, metadata, format,
                   args, origin>>
    /\ UNCHANGED <<resolverVars, pluginVars, processVars>>

\* cleanedMetadata.title ??= fileBaseName(inputFile)
withDefaultTitle(md) ==
    LET title == Field("title", Str(fileBaseName(inputFile)))
    IN  IF \E i \in 1..Len(md) : md[i].key = "title"
        THEN [i \in 1..Len(md) |->
                 IF md[i].key = "title" /\ md[i].value.t = "null" THEN title ELSE md[i]]
        ELSE Append(md, title)

\* render() returns: the title defaults to the file's base name
RenderReturn ==
    /\ pc = "compiled"
    /\ cleanedMetadata' = withDefaultTitle(cleanedMetadata)
    /\ pc' = IF format = "html" THEN "writehtml" ELSE "metafile"
    /\ UNCHANGED <<exportFrom, templateFolder, extraArguments, files, metadata, format,
                   cliArgs, notices, args, origin>>
    /\ UNCHANGED <<resolverVars, pluginVars, processVars>>

\* format === 'html': the rendered HTML is written, Pandoc is not run
WriteHtml ==
    /\ pc = "writehtml"
    /\ \E ok \in BOOLEAN :
          IF ok
          THEN /\ files' = files \cup {outputFile(format)}
               /\ notices' = Append(notices, "Successfully exported via Pandoc to "
                                             \o outputFile(format))
          ELSE /\ files' = files
               /\ notices' = Append(notices, "Pandoc export failed: EACCES")
    /\ pc' = "done"
    /\ UNCHANGED <<exportFrom, templateFolder, extraArguments, metadata, format,
                   cliArgs, cleanedMetadata, args, origin>>
    /\ UNCHANGED <<resolverVars, pluginVars, processVars>>

\* the metadata is written to a temporary file; a failure ends the export
WriteMetadataFile ==
    /\ pc = "metafile"
    /\ \E ok \in BOOLEAN :
          IF ok
          THEN /\ files' = files \cup {metadataFile}
               /\ notices' = notices
               /\ pc' = "pandoc"
          ELSE /\ files' = files
               /\ notices' = Append(notices,
                                    "Failed to create temporary metadata file: EACCES")
               /\ pc' = "done"
    /\ UNCHANGED <<exportFrom, templateFolder, extraArguments, metadata, format,
                   cliArgs, cleanedMetadata, args, origin>>
    /\ UNCHANGED <<resolverVars, pluginVars, processVars>>

\* pandoc(input, output, extraParams) builds the argument vector and spawns
CallPandoc ==
    /\ pc = "pandoc"
    /\ \E lualatex, xelatex \in BOOLEAN :
          LET input == [file |-> IF exportFrom = "html" THEN "STDIN" ELSE inputFile,
                        format |-> IF exportFrom = "html" THEN "html" ELSE "markdown",
                        metadataFile |-> IF exportFrom = "html" THEN metadataFile ELSE "",
                        documentArgs |-> cliArgs]
              output == [file |-> outputFile(format), format |-> format]
          IN  \E built \in {pandocArgs(input, output, split(extraArguments, "\n"),
                                       lualatex, xelatex)} :
                 /\ args' = built.args
                 /\ origin' = built.origin
    /\ outFile' = outputFile(format)
    /\ promise' = [state |-> "pending", value |-> NoValue, settled |-> 0]
    /\ pc' = "spawned"
    /\ UNCHANGED <<exportFrom, templateFolder, extraArguments, files, metadata, format,
                   cliArgs, cleanedMetadata, notices>>
    /\ UNCHANGED <<resolverVars, pluginVars, pdflatex, envPATH, child, result, error, uncaught,
                   spawns, exports>>

Next ==
    \/ StartPandocExport
    \/ ConvertMd
    \/ ConvertHtml
    \/ RenderReturn
    \/ WriteHtml
    \/ WriteMetadataFile
    \/ CallPandoc

Spec == Init /\ [][Next]_vars

-----------------------------------------------------------------------------
(* Vocabulary of the properties *)

\* the compiler has returned: cliArgs (and notices) are those of this export
Compiled == pc \notin {"idle", "convert"}

\* the header fields that are tool directives, and the option each names
isDirective(i) == Len(metadata[i].key) >= 7 /\ SubSeq(metadata[i].key, 1, 7) = "pandoc-"
optionOf(i) == SubSeq(metadata[i].key, 8, Len(metadata[i].key))

\* the positions of cliArgs that hold a token of option name
tokensOf(name) ==
    { k \in 1..Len(cliArgs) :
        \/ cliArgs[k] = "--" \o name
        \/ /\ Len(cliArgs[k]) > Len(name) + 2
           /\ SubSeq(cliArgs[k], 1, Len(name) + 3) = "--" \o name \o "=" }

\* the positions of notices that hold a diagnostic about option name
diagnosticsOf(name) ==
    { k \in 1..Len(notices) : includes(notices[k], "Option '" \o name \o "'") }

registered(name, type) ==
    name \in DOMAIN PANDOC_OPTIONS /\ PANDOC_OPTIONS[name].type = type

-----------------------------------------------------------------------------
(* The properties *)

\* C1: for every option registered as boolean and flag-only, a header that sets
\* pandoc-<name>: true compiles to exactly one token for that key, the bare
\* switch --<name>, and never to --<name>=true.
C1_FlagOnlyTrueIsBareSwitch ==
    Compiled =>
        \A i \in 1..Len(metadata) :
            (/\ isDirective(i)
             /\ registered(optionOf(i), "boolean")
             /\ PANDOC_OPTIONS[optionOf(i)].flagOnly
             /\ metadata[i].value = Bool(TRUE))
            => /\ Cardinality(tokensOf(optionOf(i))) = 1
               /\ \A k \in tokensOf(optionOf(i)) : cliArgs[k] = "--" \o optionOf(i)
               /\ \A k \in 1..Len(cliArgs) : cliArgs[k] # "--" \o optionOf(i) \o "=true"

\* C1 witness: the HTML export path has compiled pandoc-toc: true into --toc
C1_Witness ==
    /\ Compiled
    /\ exportFrom = "html"
    /\ \E i \in 1..Len(metadata) : metadata[i] = Field("pandoc-toc", Bool(TRUE))
    /\ \E k \in 1..Len(cliArgs) : cliArgs[k] = "--toc"

\* C2: for every option registered as boolean and not flag-only, pandoc-<name>: true
\* compiles to the token --<name>=true and not to the bare switch --<name>, and
\* pandoc-<name>: false compiles to no token for that key.
C2_NonFlagBooleanHasExplicitValue ==
    Compiled =>
        \A i \in 1..Len(metadata) :
            (/\ isDirective(i)
             /\ registered(optionOf(i), "boolean")
             /\ ~PANDOC_OPTIONS[optionOf(i)].flagOnly)
            => /\ metadata[i].value = Bool(TRUE) =>
                    /\ \E k \in 1..Len(cliArgs) : cliArgs[k] = "--" \o optionOf(i) \o "=true"
                    /\ \A k \in 1..Len(cliArgs) : cliArgs[k] # "--" \o optionOf(i)
               /\ metadata[i].value = Bool(FALSE) => tokensOf(optionOf(i)) = {}

\* what a token of option name carries for the array element item: the element
\* itself or, for a file reference, a path that ends in it
carries(token, name, item) ==
    \/ token = "--" \o name \o "=" \o toString(item)
    \/ /\ startsWith(token, "--" \o name \o "=/")
       /\ endsWith(token, "/" \o toString(item))

\* C3: a directive whose value is an array of N elements compiles to exactly N
\* tokens for that key, the i-th being --<name>=<element i>, contiguous and in the
\* order of the elements. (Stated for arrays without null elements, and letting
\* a file reference appear resolved.)
C3_ArrayYieldsOneTokenPerElement ==
    Compiled =>
        \A i \in 1..Len(metadata) :
            (/\ isDirective(i)
             /\ metadata[i].value.t = "array"
             /\ \A n \in 1..Len(metadata[i].value.a) : metadata[i].value.a[n].t # "null")
            => LET items == metadata[i].value.a
                   name  == optionOf(i)
               IN  /\ Cardinality(tokensOf(name)) = Len(items)
                   /\ \E first \in 0..Len(cliArgs) :
                         \A n \in 1..Len(items) :
                            /\ first + n \in tokensOf(name)
                            /\ carries(cliArgs[first + n], name, items[n])

\* C4: for every enumerated-choice option, a value outside the declared choices
\* compiles to no token for that key and exactly one diagnostic, which lists the
\* allowed choices; a value inside the set compiles to exactly one token
\* --<name>=<value> and no diagnostic.
C4_ChoiceOutsideSetIsDropped ==
    Compiled =>
        \A i \in 1..Len(metadata) :
            (/\ isDirective(i)
             /\ registered(optionOf(i), "choice")
             /\ metadata[i].value.t = "string")
            => LET name    == optionOf(i)
                   choices == PANDOC_OPTIONS[name].choices
                   inside  == \E c \in 1..Len(choices) : choices[c] = metadata[i].value.s
               IN  IF inside
                   THEN /\ Cardinality(tokensOf(name)) = 1
                        /\ \A k \in tokensOf(name) :
                              cliArgs[k] = "--" \o name \o "=" \o metadata[i].value.s
                        /\ diagnosticsOf(name) = {}
                   ELSE /\ tokensOf(name) = {}
                        /\ Cardinality(diagnosticsOf(name)) = 1
                        /\ \A k \in diagnosticsOf(name) :
                              \A c \in 1..Len(choices) : includes(notices[k], choices[c])

\* the header without its i-th field
without(i) == SubSeq(metadata, 1, i - 1) \o SubSeq(metadata, i + 1, Len(metadata))

\* the tokens the compiler of the running export path yields for header h
compiledFrom(h) ==
    IF exportFrom = "md"
    THEN convertYamlToPandocArgs(h, dirname(inputFile), vaultBasePath).cliArgs
    ELSE rendererConvertYamlToPandocArgs(h, dirname(inputFile), vaultBasePath,
                                         templateFolder).cliArgs

\* C5: a directive that fails validation (as pandoc-toc-depth: "not-a-number")
\* compiles to no token for its key and exactly one diagnostic, the other
\* directives of the header compile as if it were absent, and the export goes on.
\* (Stated for directives with a scalar value.)
C5_InvalidDirectiveOnlySuppressesItself ==
    Compiled =>
        \A i \in 1..Len(metadata) :
            (/\ isDirective(i)
             /\ metadata[i].value.t # "array"
             /\ ~validatePandocOption(optionOf(i), metadata[i].value).isValid)
            => /\ tokensOf(optionOf(i)) = {}
               /\ Cardinality(diagnosticsOf(optionOf(i))) = 1
               /\ cliArgs = compiledFrom(without(i))
               /\ registered(optionOf(i), "number") =>
                     \A k \in diagnosticsOf(optionOf(i)) : includes(notices[k], "number")

\* C6: in the argument vector handed to the subprocess every token of the global
\* extra arguments precedes every token of the per-document directives, and the
\* per-document tokens are the suffix of the vector, in their compiled order.
C6_DefaultsPrecedeDocumentArgs ==
    pc = "spawned" =>
        LET n == Len(args)
            d == Len(cliArgs)
        IN  /\ Len(origin) = n
            /\ \A i, j \in 1..n : (origin[i] = "extra" /\ origin[j] = "doc") => i < j
            /\ d <= n
            /\ SubSeq(args, n - d + 1, n) = cliArgs
            /\ \A i \in 1..n : origin[i] = "doc" <=> i > n - d

\* C6 witness: a spawned export with both global and per-document tokens
C6_Witness ==
    /\ pc = "spawned"
    /\ \E i, j \in 1..Len(origin) : origin[i] = "extra" /\ origin[j] = "doc"
    /\ Len(cliArgs) >= 2

\* the scalar values of the directive in field i: the value, or the array's items
valuesOf(i) ==
    IF metadata[i].value.t = "array"
    THEN { metadata[i].value.a[n] : n \in 1..Len(metadata[i].value.a) }
    ELSE { metadata[i].value }

\* C7: every token the compiler emits is --name or --name=value for a directive
\* of the header, the value being one whole directive value (as written, or as
\* the path it resolves to), whitespace included; and the tokens reach the
\* subprocess argument vector one to one, neither split nor re-quoted.
C7_TokensWellFormedAndWhole ==
    /\ Compiled =>
          \A k \in 1..Len(cliArgs) :
             \E i \in 1..Len(metadata) :
                /\ isDirective(i)
                /\ \/ cliArgs[k] = "--" \o optionOf(i)
                   \/ \E v \in valuesOf(i) : carries(cliArgs[k], optionOf(i), v)
    /\ pc = "spawned" =>
          /\ Cardinality({ i \in 1..Len(origin) : origin[i] = "doc" }) = Len(cliArgs)
          /\ \A k \in 1..Len(cliArgs) : args[Len(args) - Len(cliArgs) + k] = cliArgs[k]

\* C7 witness: a directive value with whitespace is one element of the spawned vector
C7_Witness ==
    /\ pc = "spawned"
    /\ \E i \in 1..Len(metadata) : metadata[i] = Field("pandoc-css", Str("my file.css"))
    /\ \E k \in 1..Len(args) :
          origin[k] = "doc" /\ endsWith(args[k], "my file.css") /\ startsWith(args[k], "--css=")

\* the compiler's cleanedMetadata is still as returned: main.ts never touches it,
\* render() adds the default title once the compiler has returned
CleanedAsReturned ==
    \/ exportFrom = "md" /\ pc \in {"pandoc", "spawned"}
    \/ exportFrom = "html" /\ pc = "compiled"

\* C8: the cleaned metadata the compiler returns holds exactly the header fields
\* whose key does not start with pandoc-, each with its value, and no key that
\* starts with pandoc-.
C8_CleanedMetadataIsTheNonDirectives ==
    CleanedAsReturned =>
        /\ \A k \in 1..Len(cleanedMetadata) :
              /\ ~startsWith(cleanedMetadata[k].key, "pandoc-")
              /\ \E i \in 1..Len(metadata) : metadata[i] = cleanedMetadata[k]
        /\ \A i \in 1..Len(metadata) :
              ~isDirective(i) =>
                 Cardinality({ k \in 1..Len(cleanedMetadata) : cleanedMetadata[k] = metadata[i] }) = 1
        /\ Len(cleanedMetadata) = Cardinality({ i \in 1..Len(metadata) : ~isDirective(i) })

\* C8 witness: a header with a directive and a plain field has been compiled
C8_Witness ==
    /\ CleanedAsReturned
    /\ Len(metadata) = 2
    /\ Len(cleanedMetadata) = 1
    /\ cleanedMetadata[1].key = "pandoc"

\* the reference of a header that is one pandoc-bibliography directive
soleReference == metadata[1].value.s
hasSoleReference ==
    /\ Len(metadata) = 1
    /\ metadata[1].key = "pandoc-bibliography"
    /\ metadata[1].value.t = "string"
    /\ ~startsWith(soleReference, "/")

\* the configured custom template directory
customDir ==
    IF startsWith(templateFolder, "/") THEN templateFolder
    ELSE vaultBasePath \o "/" \o templateFolder

\* the search locations of the claim, in its order
searchOrder ==
    <<"/v/notes", vaultBasePath>>
    \o (IF templateFolder # "" THEN <<customDir>> ELSE <<>>)
    \o <<vaultBasePath \o "/templates", vaultBasePath \o "/Templates",
         vaultBasePath \o "/_templates", vaultBasePath \o "/pandoc",
         vaultBasePath \o "/.pandoc", vaultBasePath \o "/assets">>

existsAt(n) == (searchOrder[n] \o "/" \o soleReference) \in files

\* C9: a relative reference resolves to the first existing candidate in the
\* order document directory, vault root, custom template folder, templates,
\* Templates, _templates, pandoc, .pandoc, assets; a later candidate is returned
\* only when no earlier one exists.
C9_FirstExistingCandidateWins ==
    (Compiled /\ hasSoleReference) =>
        \A n \in 1..Len(searchOrder) :
            (existsAt(n) /\ \A m \in 1..(n - 1) : ~existsAt(m))
            => cliArgs = <<"--bibliography=" \o searchOrder[n] \o "/" \o soleReference>>

\* C10: a relative reference that exists only under the configured custom
\* template directory resolves to the path inside that directory; one that
\* exists in no search location is passed on unchanged, in a token, with no
\* diagnostic.
C10_CustomDirectoryAndMiss ==
    (Compiled /\ hasSoleReference) =>
        LET found == { n \in 1..Len(searchOrder) : existsAt(n) }
        IN  /\ (templateFolder # "" /\ found = {3}) =>
                  cliArgs = <<"--bibliography=" \o customDir \o "/" \o soleReference>>
            /\ found = {} =>
                  /\ cliArgs = <<"--bibliography=" \o soleReference>>
                  /\ \A k \in 1..Len(notices) : ~includes(notices[k], "error")

\* C10 witness: the reference is found only in an absolute custom template folder
C10_Witness ==
    /\ Compiled
    /\ hasSoleReference
    /\ templateFolder = "/ext/tpl"
    /\ { n \in 1..Len(searchOrder) : existsAt(n) } = {3}
    /\ cliArgs = <<"--bibliography=/ext/tpl/my refs.bib">>

\* absolute references, existing and missing, one of them not normalised, and
\* the directories a resolver is called with
SampleAbsolutePaths ==
    { "/abs/t.tex", "/v/templates/my file.css", "/v/notes/../templates/my file.css",
      "/v/notes/refs.bib", "/v/.pandoc/refs.bib" }
SampleDirs == { "/v/notes", "/v", "/elsewhere" }

\* C11: resolving a reference that is already an absolute path returns it
\* unchanged, whatever the document directory, the root directory, the custom
\* template folder and the files that exist; resolving the result again returns
\* the same path.
C11_AbsolutePathIsReturnedUnchanged ==
    \A p \in SampleAbsolutePaths, dir \in SampleDirs, root \in SampleDirs :
        /\ resolveFilePath(p, dir, root) = p
        /\ resolveFilePath(resolveFilePath(p, dir, root), dir, root) = p
        /\ \A custom \in SampleTemplateFolders \cup {templateFolder} :
              /\ rendererResolveFilePath(p, dir, root, custom) = p
              /\ rendererResolveFilePath(rendererResolveFilePath(p, dir, root, custom),
                                         dir, root, custom) = p

\* C11 witness: an absolute reference to a file that does not exist has been
\* compiled into a token, while a file exists that a search would have found
C11_Witness ==
    /\ Compiled
    /\ \E i \in 1..Len(metadata) : metadata[i] = Field("pandoc-template", Str("/abs/t.tex"))
    /\ "/abs/t.tex" \notin files
    /\ "/v/templates/my file.css" \in files
    /\ \E k \in 1..Len(cliArgs) : cliArgs[k] = "--template=/abs/t.tex"

-----------------------------------------------------------------------------
(* renderer.ts: render() and postProcessRenderedHTML(), the embedded notes *)

MaxEmbeds == 2    \* embed spans in one note

\* the notes of the vault, by TFile.path, and the src attributes of embed spans
Notes == { "A.md", "B.md" }
Srcs == { "A", "B", "nowhere" }

\* app.metadataCache.getFirstLinkpathDest(src, subfolder): the note's path, or
\* "" (null) when the link resolves to nothing
getFirstLinkpathDest(src) == IF src \o ".md" \in Notes THEN src \o ".md" ELSE ""

\* adapter.getFullPath(path), as getCurrentFile() calls it
getFullPath(p) == vaultBasePath \o "/" \o p

SpanLists == UNION { [1..n -> Srcs] : n \in 0..MaxEmbeds }

Frame(inputFile_, parentFiles_, spans_) ==
    [inputFile |-> inputFile_, parentFiles |-> parentFiles_, spans |-> spans_]

InitEmbeds ==
    /\ exportFrom = "html"
    /\ templateFolder = ""
    /\ extraArguments = ""
    /\ files = { getFullPath(n) : n \in Notes }
    /\ metadata = <<>>
    /\ pc = "idle"
    /\ format = "docx"
    /\ cliArgs = <<>>
    /\ cleanedMetadata = <<>>
    /\ notices = <<>>
    /\ args = <<>>
    /\ origin = <<>>
    /\ embeds \in [Notes -> SpanLists]
    /\ stack = <<>>
    /\ spliced = <<>>
    /\ pdflatex = ""
    /\ NoProcess
    /\ NoPlugin
    /\ pandocSetting = ""
    /\ markdown = NoDocument

exportVars == <<exportFrom, templateFolder, extraArguments, files, metadata, format,
                cliArgs, cleanedMetadata, notices, args, origin, processVars, pluginVars>>

\* startPandocExport calls render() on the active note with no parentFiles
RenderActiveNote ==
    /\ pc = "idle"
    /\ \E note \in Notes :
          stack' = <<Frame(getFullPath(note), <<>>, embeds[note])>>
    /\ pc' = "rendering"
    /\ UNCHANGED <<exportVars, embeds, spliced>>

\* the render() call that is running, and what is under it
top == stack[Len(stack)]
callers == SubSeq(stack, 1, Len(stack) - 1)
nextSpan ==
    [file |-> getFirstLinkpathDest(Head(top.spans)),
     ancestors |-> Append(top.parentFiles, top.inputFile)]
spanTaken == Append(callers, Frame(top.inputFile, top.parentFiles, Tail(top.spans)))

\* file.path is among parentFiles: the span becomes a link
EmbedReplacedByLink ==
    /\ pc = "rendering" /\ top.spans # <<>>
    /\ nextSpan.file # ""
    /\ \E i \in 1..Len(top.parentFiles) : top.parentFiles[i] = nextSpan.file
    /\ stack' = spanTaken
    /\ spliced' = Append(spliced, nextSpan @@ [by |-> "link"])
    /\ UNCHANGED <<exportVars, pc, embeds>>

\* otherwise the note is read and rendered with inputFile added to parentFiles
EmbedRendered ==
    /\ pc = "rendering" /\ top.spans # <<>>
    /\ nextSpan.file # ""
    /\ \A i \in 1..Len(top.parentFiles) : top.parentFiles[i] # nextSpan.file
    /\ stack' = Append(spanTaken,
                       Frame(nextSpan.file, nextSpan.ancestors, embeds[nextSpan.file]))
    /\ spliced' = Append(spliced, nextSpan @@ [by |-> "render"])
    /\ UNCHANGED <<exportVars, pc, embeds>>

\* the link resolves to no file: file.path throws, the catch leaves the span
EmbedNotLoaded ==
    /\ pc = "rendering" /\ top.spans # <<>>
    /\ nextSpan.file = ""
    /\ stack' = spanTaken
    /\ spliced' = Append(spliced, nextSpan @@ [by |-> "nothing"])
    /\ UNCHANGED <<exportVars, pc, embeds>>

\* no span is left: render() returns to the span that called it, or to the export
RenderReturns ==
    /\ pc = "rendering" /\ top.spans = <<>>
    /\ stack' = callers
    /\ pc' = IF callers = <<>> THEN "rendered" ELSE pc
    /\ UNCHANGED <<exportVars, embeds, spliced>>

NextEmbeds ==
    \/ RenderActiveNote
    \/ EmbedReplacedByLink
    \/ EmbedRendered
    \/ EmbedNotLoaded
    \/ RenderReturns

\* an awaited render() goes on until it returns
SpecEmbeds == InitEmbeds /\ [][NextEmbeds]_vars /\ WF_vars(NextEmbeds)

\* the note a path names, whether the path is absolute or relative to the vault
identity(p) ==
    IF startsWith(p, vaultBasePath \o "/") THEN substring(p, Len(vaultBasePath) + 1) ELSE p

identities(chain) == { identity(chain[i]) : i \in 1..Len(chain) }

\* content resolution of every note ends, whatever the embeds
ResolutionTerminates == (pc = "rendering") ~> (pc = "rendered")

\* C12: in a content resolution no note appears twice in the chain of ancestors,
\* and an embed that would revisit an ancestor is replaced by a link instead of
\* being rendered again (so that A embeds B embeds A ends).
C12_NoAncestorIsRevisited ==
    /\ \A f \in 1..Len(stack) :
          LET chain == Append(stack[f].parentFiles, stack[f].inputFile)
          IN  Cardinality(identities(chain)) = Len(chain)
    /\ \A k \in 1..Len(spliced) :
          (spliced[k].file # "" /\ identity(spliced[k].file) \in identities(spliced[k].ancestors))
          => spliced[k].by = "link"

-----------------------------------------------------------------------------
(* pandoc.ts: the input stat, start(), the stream handlers; main.ts: the report *)

MaxExports == 2    \* exports run one after another in a session

SampleStdout == { <<>>, <<"<p>x</p>">> }
SampleStderr == { <<>>, <<"[WARNING] w">>, <<"Error: ", "bad option">> }

\* what a spawned subprocess can do: run, exit with a code, write the output
\* file or not, and write chunks to stdout (when the output goes there) and to
\* stderr; or fail to spawn at all
Outcomes ==
    [state : {"running"}, exit : {0, 1}, artifact : BOOLEAN,
     stdout : SampleStdout, stderr : SampleStderr]
    \cup {[state |-> "failed", exit |-> 1, artifact |-> FALSE, stdout |-> <<>>, stderr |-> <<>>]}

\* path.dirname(input.pdflatex), tabulated for the settings explored
pdflatexDir == [p \in {"/opt/tex/bin/pdflatex"} |-> dirname(p)]

\* the sessions explored: the input exists or not, outputs of earlier sessions
\* exist or not, settings.pdflatex is set or not
InitPandoc ==
    /\ exportFrom \in {"md", "html"}
    /\ templateFolder = ""
    /\ extraArguments = ""
    /\ \E input \in SUBSET {inputFile}, stale \in BOOLEAN :
          files = input \cup (IF stale THEN { outputFile(f) : f \in SampleFormats } ELSE {})
    /\ metadata = <<Field("pandoc-toc", Bool(TRUE))>>
    /\ pc = "idle"
    /\ format = ""
    /\ cliArgs = <<>>
    /\ cleanedMetadata = <<>>
    /\ notices = <<>>
    /\ args = <<>>
    /\ origin = <<>>
    /\ embeds = <<>>
    /\ stack = <<>>
    /\ spliced = <<>>
    /\ pdflatex \in {""} \cup DOMAIN pdflatexDir
    /\ NoProcess
    /\ NoPlugin
    /\ pandocSetting = ""
    /\ markdown = NoDocument

compileVars == <<exportFrom, templateFolder, extraArguments, metadata, format, cliArgs,
                 cleanedMetadata, args, origin, resolverVars, pluginVars, pdflatex, outFile, exports>>

\* pandoc() called with output.file = 'STDOUT', as its signature allows
CallPandocStdout ==
    /\ pc = "pandoc"
    /\ \E lualatex, xelatex \in BOOLEAN :
          LET input == [file |-> IF exportFrom = "html" THEN "STDIN" ELSE inputFile,
                        format |-> IF exportFrom = "html" THEN "html" ELSE "markdown",
                        metadataFile |-> IF exportFrom = "html" THEN metadataFile ELSE "",
                        documentArgs |-> cliArgs]
              output == [file |-> "STDOUT", format |-> format]
          IN  \E built \in {pandocArgs(input, output, split(extraArguments, "\n"),
                                       lualatex, xelatex)} :
                 /\ args' = built.args
                 /\ origin' = built.origin
    /\ outFile' = "STDOUT"
    /\ promise' = [state |-> "pending", value |-> NoValue, settled |-> 0]
    /\ pc' = "spawned"
    /\ UNCHANGED <<exportFrom, templateFolder, extraArguments, files, metadata, format,
                   cliArgs, cleanedMetadata, notices>>
    /\ UNCHANGED <<resolverVars, pluginVars, pdflatex, envPATH, child, result, error, uncaught,
                   spawns, exports>>

\* start(): the directory of pdflatex is appended to PATH, the subprocess is spawned
start ==
    /\ envPATH' = IF pdflatex # "" THEN envPATH \o ":" \o pdflatexDir[pdflatex] ELSE envPATH
    /\ \E o \in Outcomes :
          /\ outFile # "STDOUT" => o.stdout = <<>>
          /\ child' = o
    /\ spawns' = Append(spawns, envPATH')
    /\ pc' = "running"

\* input.file === 'STDIN': start() at once
StartOnStdin ==
    /\ pc = "spawned"
    /\ exportFrom = "html"
    /\ start
    /\ UNCHANGED <<compileVars, files, notices, result, error, promise, uncaught>>

\* the callback of stat(input.file): start() for a regular file, a rejection for
\* anything else that exists; for a missing file stats is undefined and
\* stats.isFile() throws inside the callback
InputStatCallback ==
    /\ pc = "spawned"
    /\ exportFrom = "md"
    /\ IF inputFile \in files
       THEN start /\ UNCHANGED <<promise, uncaught>>
       ELSE /\ \E stats \in {"directory", "undefined"} :
                 IF stats = "directory"
                 THEN /\ promise' = [state |-> "rejected",
                                     value |-> [NoValue EXCEPT !.error = "Input file does not exist"],
                                     settled |-> promise.settled + 1]
                      /\ pc' = "settled"
                      /\ uncaught' = uncaught
                 ELSE /\ uncaught' = Append(uncaught, "TypeError: stats is undefined")
                      /\ pc' = "hung"
                      /\ promise' = promise
            /\ UNCHANGED <<envPATH, child, spawns>>
    /\ UNCHANGED <<compileVars, files, notices, result, error>>

\* the subprocess could not be spawned: its 'error' event has no listener, so it
\* is thrown; whether the stdout stream still ends is up to the runtime
SpawnErrorEvent ==
    /\ pc = "running"
    /\ child.state = "failed"
    /\ uncaught' = Append(uncaught, "Error: spawn pandoc ENOENT")
    /\ \E ends \in BOOLEAN :
          child' = [child EXCEPT !.state = IF ends THEN "closing" ELSE "dead"]
    /\ UNCHANGED <<compileVars, files, notices, envPATH, result, error, promise, spawns, pc>>

\* pandoc.stdout.on('data')
StdoutData ==
    /\ pc = "running"
    /\ child.state = "running"
    /\ child.stdout # <<>>
    /\ result' = result \o Head(child.stdout)
    /\ child' = [child EXCEPT !.stdout = Tail(@)]
    /\ UNCHANGED <<compileVars, files, notices, envPATH, error, promise, uncaught, spawns, pc>>

\* pandoc.stderr.on('data'), which can also come after stdout has ended
StderrData ==
    /\ pc \in {"running", "ended"}
    /\ child.state = "running"
    /\ child.stderr # <<>>
    /\ error' = error \o Head(child.stderr)
    /\ child' = [child EXCEPT !.stderr = Tail(@)]
    /\ UNCHANGED <<compileVars, files, notices, envPATH, result, promise, uncaught, spawns, pc>>

\* pandoc.stdout.on('end'): by then the subprocess has written its output file, if
\* it writes one; value is built; for a file output the stat is requested, for
\* STDOUT the promise is settled at once
StdoutEnd ==
    /\ pc = "running"
    /\ child.state \in {"running", "closing"}
    /\ child.stdout = <<>>
    /\ files' = IF child.artifact /\ outFile # "STDOUT" THEN files \cup {outFile} ELSE files
    /\ LET value == [result |-> result, error |-> error,
                     command |-> "pandoc " \o join(args, " ")]
       IN  IF outFile # "STDOUT"
           THEN /\ promise' = [promise EXCEPT !.value = value]
                /\ pc' = "ended"
           ELSE /\ promise' = IF result # ""
                              THEN [state |-> "resolved", value |-> value,
                                    settled |-> promise.settled + 1]
                              ELSE [state |-> "rejected",
                                    value |-> [NoValue EXCEPT !.error = error],
                                    settled |-> promise.settled + 1]
                /\ pc' = "settled"
    /\ UNCHANGED <<compileVars, notices, envPATH, child, result, error, uncaught, spawns>>

\* faulty variant: the promise is settled by the exit code of the subprocess
OutputStatCallbackByExitCode ==
    /\ pc = "ended"
    /\ promise' = IF child.exit = 0
                  THEN [promise EXCEPT !.state = "resolved", !.settled = @ + 1]
                  ELSE [state |-> "rejected", value |-> [NoValue EXCEPT !.error = error],
                        settled |-> promise.settled + 1]
    /\ pc' = "settled"
    /\ UNCHANGED <<compileVars, files, notices, envPATH, child, result, error, uncaught, spawns>>

\* the callback of fs.stat(output.file): resolve if the file exists, reject otherwise
OutputStatCallback ==
    /\ pc = "ended"
    /\ promise' = IF outFile \in files
                  THEN [promise EXCEPT !.state = "resolved", !.settled = @ + 1]
                  ELSE [state |-> "rejected", value |-> [NoValue EXCEPT !.error = error],
                        settled |-> promise.settled + 1]
    /\ pc' = "settled"
    /\ UNCHANGED <<compileVars, files, notices, envPATH, child, result, error, uncaught, spawns>>

\* startPandocExport after the await: the export is reported
ExportReported ==
    /\ pc = "settled"
    /\ outFile # "STDOUT"
    /\ promise.state = "resolved"
    /\ notices' = IF promise.value.error # ""
                  THEN notices \o <<"Exported via Pandoc to " \o outFile \o " with warnings",
                                    "Pandoc warnings:" \o promise.value.error>>
                  ELSE Append(notices, "Successfully exported via Pandoc to " \o outFile)
    /\ pc' = "done"
    /\ UNCHANGED <<compileVars, files, envPATH, child, result, error, promise, uncaught, spawns>>

\* startPandocExport's catch: the rejection is reported
ExportFailed ==
    /\ pc = "settled"
    /\ outFile # "STDOUT"
    /\ promise.state = "rejected"
    /\ notices' = Append(notices, "Pandoc export failed: " \o promise.value.error)
    /\ pc' = "done"
    /\ UNCHANGED <<compileVars, files, envPATH, child, result, error, promise, uncaught, spawns>>

\* the caller of pandoc() with STDOUT output gets the settled promise
StdoutCallReturns ==
    /\ pc = "settled"
    /\ outFile = "STDOUT"
    /\ pc' = "done"
    /\ UNCHANGED <<compileVars, files, notices, envPATH, child, result, error, promise,
                   uncaught, spawns>>

\* the user runs the export command again: the locals of the finished export
\* are gone, the process environment and the file system remain
ExportAgain ==
    /\ pc = "done"
    /\ exports + 1 < MaxExports
    /\ exports' = exports + 1
    /\ pc' = "idle"
    /\ format' = ""
    /\ cliArgs' = <<>>
    /\ cleanedMetadata' = <<>>
    /\ notices' = <<>>
    /\ args' = <<>>
    /\ origin' = <<>>
    /\ outFile' = ""
    /\ child' = NoChild
    /\ result' = ""
    /\ error' = ""
    /\ promise' = NoPromise
    /\ UNCHANGED <<exportFrom, templateFolder, extraArguments, files, metadata, resolverVars, pluginVars,
                   pdflatex, envPATH, uncaught, spawns>>

\* what the event loop runs without the user: callbacks that are due, and the
\* continuation of startPandocExport once the awaited promise has settled
Callbacks ==
    \/ StartOnStdin
    \/ InputStatCallback
    \/ SpawnErrorEvent
    \/ StdoutData
    \/ StderrData
    \/ StdoutEnd
    \/ OutputStatCallback
    \/ ExportReported
    \/ ExportFailed
    \/ StdoutCallReturns

NextPandoc ==
    \/ Next
    \/ CallPandocStdout
    \/ Callbacks
    \/ ExportAgain

SpecPandoc == InitPandoc /\ [][NextPandoc]_vars /\ WF_vars(Callbacks)

\* C13: for a file output pandoc() resolves, with {result, error, command}, if
\* and only if a file is at the output location when the stdout of the
\* subprocess has ended, and otherwise rejects with the stderr text collected;
\* for STDOUT output it resolves if and only if the stdout collected is not empty.
C13_ResolvesIffArtifactExists ==
    (pc \in {"settled", "done"} /\ child.state # "none") =>
        /\ promise.state \in {"resolved", "rejected"}
        /\ promise.state = "resolved" <=>
              IF outFile = "STDOUT" THEN result # "" ELSE outFile \in files
        /\ promise.state = "resolved" =>
              /\ promise.value.result = result
              /\ promise.value.command = "pandoc " \o join(args, " ")
              /\ startsWith(error, promise.value.error)
        /\ promise.state = "rejected" => promise.value.error = error

\* C13 witness: the subprocess wrote to stderr and no file is at the output
\* location once its stdout has ended, so the promise is rejected with that text
C13_Witness ==
    /\ pc = "settled"
    /\ child.state = "running"
    /\ outFile \notin files \cup {"STDOUT"}
    /\ promise.state = "rejected"
    /\ promise.value.error = "Error: bad option"

\* C18: validatePandocOption on a flag-only boolean option returns valid if and
\* only if the value is the boolean true; the string "true" is invalid and gets
\* a diagnostic (shown as a notice by the compiler that validates).
C18_FlagOnlyValidOnlyForTrue ==
    /\ pc = "idle" =>
          \A n \in DOMAIN PANDOC_OPTIONS, v \in SampleValues :
              (PANDOC_OPTIONS[n].type = "boolean" /\ PANDOC_OPTIONS[n].flagOnly) =>
                  /\ validatePandocOption(n, v).isValid <=> v = Bool(TRUE)
                  /\ v # Bool(TRUE) =>
                        includes(validatePandocOption(n, v).error, "flag-only")
    /\ (Compiled /\ exportFrom = "html") =>
          \A i \in 1..Len(metadata) :
              (isDirective(i) /\ registered(optionOf(i), "boolean")
                              /\ PANDOC_OPTIONS[optionOf(i)].flagOnly) =>
                  (diagnosticsOf(optionOf(i)) = {} <=> metadata[i].value = Bool(TRUE))

\* C18 witness: the header pandoc-citeproc: "true" was compiled with validation
\* and the diagnostic of the flag-only test was shown
C18_Witness ==
    /\ Compiled
    /\ exportFrom = "html"
    /\ metadata = <<Field("pandoc-citeproc", Str("true"))>>
    /\ cliArgs = <<>>
    /\ \E k \in 1..Len(notices) :
          includes(notices[k], "Option 'citeproc' is flag-only and should be set to true, not 'true'")

\* C19: a flag-only option set to false or null in the header is a silent
\* no-op: compiling it yields no token and no diagnostic.
C19_FlagOnlyFalseIsSilentNoOp ==
    Compiled =>
        \A i \in 1..Len(metadata) :
            (/\ isDirective(i)
             /\ registered(optionOf(i), "boolean")
             /\ PANDOC_OPTIONS[optionOf(i)].flagOnly
             /\ metadata[i].value \in {Bool(FALSE), Null})
            => /\ tokensOf(optionOf(i)) = {}
               /\ diagnosticsOf(optionOf(i)) = {}

\* C20: a number-kind option is valid exactly when its value is a number or a
\* string that parses as a number; any other value (a non-numeric string, a
\* boolean, null, a string with trailing non-numeric characters) is invalid with
\* a diagnostic that mentions "number".
C20_NumberValidIffNumeric ==
    (Compiled /\ exportFrom = "html") =>
        \A i \in 1..Len(metadata) :
            (isDirective(i) /\ registered(optionOf(i), "number")) =>
                LET v == metadata[i].value
                    numeric == \/ v.t = "number"
                               \/ v.t = "string" /\ v.s # "" /\ ~numberIsNaN(v.s)
                IN  /\ validatePandocOption(optionOf(i), v).isValid <=> numeric
                    /\ diagnosticsOf(optionOf(i)) = {} <=> numeric
                    /\ \A k \in diagnosticsOf(optionOf(i)) : includes(notices[k], "number")

\* this run of the subprocess failed: it was not spawned, or ended with a
\* nonzero code, or did not write the output file
failedRun == child.state # "running" \/ child.exit # 0 \/ ~child.artifact

reportedAsFailure ==
    \E k \in 1..Len(notices) : startsWith(notices[k], "Pandoc export failed: ")

reportedAsSuccess ==
    \E k \in 1..Len(notices) :
        \/ startsWith(notices[k], "Successfully exported via Pandoc to ")
        \/ startsWith(notices[k], "Exported via Pandoc to ")

\* C14: a failed run (nonzero exit, or no output file written by this run) is
\* always reported as an export failure and never as a success; a run that wrote
\* its output file and also wrote diagnostics is reported as a success with warnings.
C14_FailedRunIsReportedAsFailure ==
    (pc = "done" /\ outFile # "STDOUT" /\ child.state # "none") =>
        /\ failedRun => (reportedAsFailure /\ ~reportedAsSuccess)
        /\ (~failedRun /\ error # "") =>
              \E k \in 1..Len(notices) :
                  notices[k] = "Exported via Pandoc to " \o outFile \o " with warnings"

\* C15: every exception raised during an export, those raised inside
\* asynchronous callbacks included, is caught in startPandocExport and shown to
\* the user with its message; none escapes to the host application.
C15_NoExceptionEscapes ==
    /\ uncaught = <<>>
    /\ (pc = "done" /\ promise.state = "rejected" /\ outFile # "STDOUT") =>
          \E k \in 1..Len(notices) :
              notices[k] = "Pandoc export failed: " \o promise.value.error

\* C16: for every input (STDIN or a file, present or missing) and every outcome
\* of the subprocess the promise of pandoc() eventually settles, it settles once,
\* and when a subprocess was spawned it settles only after its stdout has ended.
C16_PromiseEventuallySettlesOnce ==
    /\ [](promise.settled <= 1)
    /\ []((promise.state \in {"resolved", "rejected"} /\ child.state # "none")
              => pc \in {"settled", "done"})
    /\ (promise.state = "pending") ~> (promise.state \in {"resolved", "rejected"})

\* C17: exports share no mutable state: every subprocess is spawned with the
\* PATH the session started with, however many exports ran before it.
C17_ExportsShareNoMutableState ==
    /\ envPATH = "/usr/bin"
    /\ \A i, j \in 1..Len(spawns) : spawns[i] = spawns[j]

\* C21: validatePandocOption returns valid, without a diagnostic, for every
\* option name the catalogue does not hold, whatever the type of the value.
C21_UnknownOptionIsValid ==
    /\ pc = "idle" =>
          \A n \in {"frobnicate", "", "Toc", "toc ", "pandoc-toc"},
             v \in SampleValues \cup {Arr(<<>>), Arr(<<Str("x"), Num("2"), Null>>)} :
              /\ n \notin DOMAIN PANDOC_OPTIONS
              /\ validatePandocOption(n, v) = Valid
    /\ (Compiled /\ exportFrom = "html") =>
          \A i \in 1..Len(metadata) :
              (isDirective(i) /\ optionOf(i) \notin DOMAIN PANDOC_OPTIONS) =>
                  /\ validatePandocOption(optionOf(i), metadata[i].value) = Valid
                  /\ diagnosticsOf(optionOf(i)) = {}

\* C21 witness: the header pandoc-frobnicate: 3 was compiled with validation:
\* the token is there and nothing but the start of the export was noticed
C21_Witness ==
    /\ Compiled
    /\ exportFrom = "html"
    /\ metadata = <<Field("pandoc-frobnicate", Num("3"))>>
    /\ cliArgs = <<"--frobnicate=3">>
    /\ Len(notices) = 1

\* the values of the i-th header field that are compiled to a token each
itemsOf(i) ==
    LET v == metadata[i].value
    IN  IF v.t = "array" THEN { toString(v.a[k]) : k \in { j \in 1..Len(v.a) : v.a[j].t # "null" } }
        ELSE IF v.t \in {"boolean", "null"} THEN {}
        ELSE { toString(v) }

\* C22: path resolution is applied to the value of a directive (a scalar, or
\* each element of an array) if and only if the option is in the registry's set
\* of file-path options; the values of all other options are emitted verbatim.
C22_ResolvedIffFilePathOption ==
    Compiled =>
        \A i \in 1..Len(metadata) :
            (/\ isDirective(i)
             /\ exportFrom = "html" => validatePandocOption(optionOf(i), metadata[i].value).isValid)
            => \A item \in itemsOf(i) :
                 LET resolved == IF exportFrom = "md"
                                 THEN resolveFilePath(item, dirname(inputFile), vaultBasePath)
                                 ELSE rendererResolveFilePath(item, dirname(inputFile),
                                                              vaultBasePath, templateFolder)
                     emitted == IF optionOf(i) \in FILE_PATH_ARGUMENTS THEN resolved ELSE item
                 IN  \E k \in 1..Len(cliArgs) :
                        cliArgs[k] = "--" \o optionOf(i) \o "=" \o emitted

\* the tokens of the argument vector that come from the global extra arguments
extraTokens == SelectSeq([k \in 1..Len(args) |-> IF origin[k] = "extra" THEN args[k] ELSE ""],
                         LAMBDA x : x # "")

\* C23: parseArgumentString makes one token, without the surrounding quotes, of
\* an argument whose value is quoted and holds whitespace (--css="my file.css"
\* gives --css=my file.css); a value that holds = keeps everything after the
\* first =; an argument without quotes or whitespace is passed through unchanged.
C23_QuotedValuesAreOneToken ==
    /\ pc = "idle" =>
          /\ \A flag \in {"--css", "--template", "-V", "--metadata"},
                v \in {"my file.css", "path with spaces", " a ", "title=A B", "a=b=c d"},
                q \in {"\"", "'"} :
                parseArgumentString(flag \o "=" \o q \o v \o q) = <<flag \o "=" \o v>>
          /\ \A a \in {"--toc", "-s", "--pdf-engine=xelatex", "--metadata=title=A=B",
                       "--css=a.css", "--flag=", "x"} :
                parseArgumentString(a) = <<a>>
          /\ parseArgumentString("--css=\"my file.css\" --toc\t--template='my t.tex'")
                = <<"--css=my file.css", "--toc", "--template=my t.tex">>
    /\ pc = "spawned" =>
          /\ extraArguments = "--css=\"my style.css\" --number-sections\n--pdf-engine=xelatex"
                => extraTokens = <<"--css=my style.css", "--number-sections",
                                   "--pdf-engine=xelatex">>
          /\ extraArguments = "--toc" => extraTokens = <<"--toc">>
          /\ extraArguments = "" => extraTokens = <<>>

\* C23 witness: the quoted value of the global extra arguments is one element of
\* the spawned argument vector, without its quotes
C23_Witness ==
    /\ pc = "spawned"
    /\ extraArguments = "--css=\"my style.css\" --number-sections\n--pdf-engine=xelatex"
    /\ \E k \in 1..Len(args) : origin[k] = "extra" /\ args[k] = "--css=my style.css"

\* C24: header extraction returns a mapping for every document: the parsed block
\* when the document begins with --- and has a closing --- line, the empty
\* mapping otherwise (no header, or an opening delimiter that is never closed);
\* the markdown export path never fails because of the shape of the header.
C24_HeaderExtractionNeverFails ==
    (markdown # NoDocument /\ pc \notin {"idle", "convert"}) =>
        LET md == trimEnd(trimStart(markdown))
            closed == startsWith(md, "---\n") /\ includes(substring(md, 3), "\n---")
        IN  /\ getYAMLMetadata(markdown).t = "object"
            /\ \A k \in 1..Len(notices) : ~startsWith(notices[k], "Pandoc export failed")
            /\ ~closed => metadata = <<>>

\* C25: when the input is a file path (not STDIN) and no regular file is there,
\* pandoc() rejects with 'Input file does not exist' and spawns no subprocess.
C25_MissingInputIsRejected ==
    (/\ exportFrom = "md"
     /\ inputFile \notin files
     /\ pc \in {"running", "ended", "settled", "hung", "done"})
    => /\ promise.state = "rejected"
       /\ promise.value.error = "Input file does not exist"
       /\ child.state = "none"
       /\ spawns = <<>>

-----------------------------------------------------------------------------
(* main.ts: createBinaryMap and currentFileCanBeExported *)

MaxCalls == 2    \* calls of createBinaryMap in a session

inputExtensions == <<"md", "docx", "csv", "html", "tex", "odt">>

\* the plugin is loaded with its settings; nothing is exported
InitPlugin ==
    /\ exportFrom = "md"
    /\ templateFolder = ""
    /\ extraArguments = ""
    /\ files = {inputFile}
    /\ metadata = <<>>
    /\ pc = "idle"
    /\ format = ""
    /\ cliArgs = <<>>
    /\ cleanedMetadata = <<>>
    /\ notices = <<>>
    /\ args = <<>>
    /\ origin = <<>>
    /\ embeds = <<>>
    /\ stack = <<>>
    /\ spliced = <<>>
    /\ pdflatex \in {"", "/opt/tex/bin/pdflatex"}
    /\ NoProcess
    /\ NoPlugin
    /\ pandocSetting \in {"", "/opt/pandoc"}
    /\ markdown = NoDocument

\* what createBinaryMap and currentFileCanBeExported leave alone
exportState == <<exportFrom, templateFolder, extraArguments, files, metadata, pc, format,
                 cliArgs, cleanedMetadata, notices, args, origin, resolverVars, processVars,
                 markdown, pandocSetting>>

\* the end of createBinaryMap, from "Store the paths" on, in call i
store(i, pandocPath, pdflatexPath) ==
    /\ features' = [pandoc |-> pandocPath, pdflatex |-> pdflatexPath]
    /\ binaryMapInitialized' = TRUE
    /\ everFoundPandoc' = (everFoundPandoc \/ pandocPath # "")
    /\ cachedPandocPath' = IF pandocPath # "" THEN pandocPath ELSE cachedPandocPath
    /\ assignments' = assignments + 1
    /\ calls' = [calls EXCEPT ![i] = [pc |-> "done", skipped |-> FALSE,
                                      pandocPath |-> pandocPath,
                                      pdflatexPath |-> pdflatexPath]]

\* createBinaryMap is called: it returns at once when the map is initialized,
\* else it runs up to its first await (none when both paths are in the settings)
CreateBinaryMap ==
    /\ Len(calls) < MaxCalls
    /\ LET began(at) == Append(calls, [pc |-> at, skipped |-> at = "done",
                                   pandocPath |-> pandocSetting, pdflatexPath |-> ""])
       IN  IF binaryMapInitialized
           THEN /\ calls' = began("done")
                /\ UNCHANGED <<features, binaryMapInitialized, everFoundPandoc,
                               cachedPandocPath, assignments>>
           ELSE IF pandocSetting = ""
           THEN /\ calls' = began("lookpath pandoc")
                /\ UNCHANGED <<features, binaryMapInitialized, everFoundPandoc,
                               cachedPandocPath, assignments>>
           ELSE IF pdflatex = ""
           THEN /\ calls' = began("lookpath pdflatex")
                /\ UNCHANGED <<features, binaryMapInitialized, everFoundPandoc,
                               cachedPandocPath, assignments>>
           ELSE /\ features' = [pandoc |-> pandocSetting, pdflatex |-> pdflatex]
                /\ binaryMapInitialized' = TRUE
                /\ everFoundPandoc' = TRUE
                /\ cachedPandocPath' = pandocSetting
                /\ assignments' = assignments + 1
                /\ calls' = Append(calls, [pc |-> "done", skipped |-> FALSE,
                                           pandocPath |-> pandocSetting,
                                           pdflatexPath |-> pdflatex])
    /\ UNCHANGED <<exportState, lastCheck>>

\* await lookpath('pandoc') resolves in call i, with a path or with undefined
LookpathPandocResolves ==
    /\ \E i \in 1..Len(calls) :
          /\ calls[i].pc = "lookpath pandoc"
          /\ \E pandocPath \in {"", "/usr/bin/pandoc"} :
                IF pdflatex # ""
                THEN store(i, pandocPath, pdflatex)
                ELSE /\ calls' = [calls EXCEPT ![i].pc = "lookpath pdflatex",
                                               ![i].pandocPath = pandocPath]
                     /\ UNCHANGED <<features, binaryMapInitialized, everFoundPandoc,
                                    cachedPandocPath, assignments>>
    /\ UNCHANGED <<exportState, lastCheck>>

\* await lookpath('pdflatex') resolves in call i
LookpathPdflatexResolves ==
    /\ \E i \in 1..Len(calls) :
          /\ calls[i].pc = "lookpath pdflatex"
          /\ \E pdflatexPath \in {"", "/usr/bin/pdflatex"} :
                store(i, calls[i].pandocPath, pdflatexPath)
    /\ UNCHANGED <<exportState, lastCheck>>

\* faulty variant: the cached path is not restored
CurrentFileCanBeExportedNoRestore ==
    /\ \E fmt \in SampleFormats, file \in {"", inputFile, "/v/notes/pic.png"} :
          LET validInput == \E k \in 1..Len(inputExtensions) : endsWith(file, inputExtensions[k])
              canBe ==
                  IF file = "" \/ ~validInput THEN FALSE
                  ELSE IF ~binaryMapInitialized THEN TRUE
                  ELSE IF needsPandoc(fmt) /\ everFoundPandoc THEN TRUE
                  ELSE IF needsPandoc(fmt) /\ features.pandoc = "" THEN FALSE
                  ELSE IF needsLaTeX(fmt) /\ features.pdflatex = "" THEN FALSE
                  ELSE TRUE
          IN  /\ features' = features
              /\ lastCheck' = [format |-> fmt, file |-> file, result |-> canBe,
                               initialized |-> binaryMapInitialized,
                               everFound |-> everFoundPandoc,
                               pandoc |-> features.pandoc,
                               pdflatex |-> features.pdflatex]
    /\ UNCHANGED <<exportState, binaryMapInitialized, everFoundPandoc, cachedPandocPath,
                   calls, assignments>>

\* the command palette asks whether the current file can be exported as fmt
CurrentFileCanBeExported ==
    /\ \E fmt \in SampleFormats, file \in {"", inputFile, "/v/notes/pic.png"} :
          LET validInput == \E k \in 1..Len(inputExtensions) : endsWith(file, inputExtensions[k])
              restore == /\ validInput /\ binaryMapInitialized
                         /\ needsPandoc(fmt) /\ everFoundPandoc
                         /\ features.pandoc = "" /\ cachedPandocPath # ""
              canBe ==
                  IF file = "" \/ ~validInput THEN FALSE
                  ELSE IF ~binaryMapInitialized THEN TRUE
                  ELSE IF needsPandoc(fmt) /\ everFoundPandoc THEN TRUE
                  ELSE IF needsPandoc(fmt) /\ features.pandoc = "" THEN FALSE
                  ELSE IF needsLaTeX(fmt) /\ features.pdflatex = "" THEN FALSE
                  ELSE TRUE
          IN  /\ features' = IF restore THEN [features EXCEPT !.pandoc = cachedPandocPath]
                             ELSE features
              /\ lastCheck' = [format |-> fmt, file |-> file, result |-> canBe,
                               initialized |-> binaryMapInitialized,
                               everFound |-> everFoundPandoc,
                               pandoc |-> features'.pandoc,
                               pdflatex |-> features.pdflatex]
    /\ UNCHANGED <<exportState, binaryMapInitialized, everFoundPandoc, cachedPandocPath,
                   calls, assignments>>

NextPlugin ==
    \/ CreateBinaryMap
    \/ LookpathPandocResolves
    \/ LookpathPdflatexResolves
    \/ CurrentFileCanBeExported

\* a lookup that was started comes back
SpecPlugin ==
    InitPlugin /\ [][NextPlugin]_vars
    /\ WF_vars(LookpathPandocResolves) /\ WF_vars(LookpathPdflatexResolves)

\* C26: across every interleaving of calls of createBinaryMap the binary lookup
\* and the assignment of features, binaryMapInitialized, everFoundPandoc and
\* cachedPandocPath happen at most once; a later call leaves that state unchanged.
C26_BinaryMapAssignedOnce ==
    /\ assignments <= 1
    /\ Cardinality({ i \in 1..Len(calls) : ~calls[i].skipped }) <= 1

\* C27: once everFoundPandoc is true it is never reset and cachedPandocPath stays
\* defined; from then on currentFileCanBeExported returns true for every
\* supported input file and every format that needs Pandoc, and leaves
\* features['pandoc'] non-empty (the cached path is restored when it was cleared).
C27_EverFoundPandocKeepsCommands ==
    /\ (\E i \in 1..Len(calls) :
           calls[i].pc = "done" /\ ~calls[i].skipped /\ calls[i].pandocPath # "")
       => everFoundPandoc
    /\ lastCheck.everFound => everFoundPandoc
    /\ everFoundPandoc => cachedPandocPath # ""
    /\ (/\ lastCheck.everFound
        /\ \E k \in 1..Len(inputExtensions) : endsWith(lastCheck.file, inputExtensions[k])
        /\ needsPandoc(lastCheck.format))
       => lastCheck.result /\ lastCheck.pandoc # ""

\* C27 witness: the call that found Pandoc assigned first, the call that did not
\* find it assigned last and cleared features['pandoc']; the check of a docx
\* export then returned true and restored the cached path
C27_Witness ==
    /\ Len(calls) = 2
    /\ calls[1].pandocPath = "/usr/bin/pandoc" /\ calls[2].pandocPath = ""
    /\ calls[1].pc = "done" /\ calls[2].pc = "done"
    /\ calls[1].pdflatexPath # calls[2].pdflatexPath
    /\ features.pdflatex = calls[2].pdflatexPath
    /\ features.pandoc = "/usr/bin/pandoc"
    /\ lastCheck.format = "docx" /\ lastCheck.file = inputFile /\ lastCheck.result

\* C28: once the binary map is initialized, currentFileCanBeExported returns
\* false for a format that needs LaTeX (pdf) whenever features holds no
\* pdflatex path, whatever features['pandoc'] and everFoundPandoc are.
C28_PdfNeedsPdflatex ==
    (lastCheck.initialized /\ needsLaTeX(lastCheck.format) /\ lastCheck.pdflatex = "")
    => ~lastCheck.result

\* C29: for pdf output pandoc() adds a default --pdf-engine= token (lualatex if
\* it is available, else xelatex if it is, else none) exactly when neither the
\* global extra arguments nor the per-document arguments specify the --pdf-engine
\* option; the default precedes every user-supplied token, and no default is
\* added when the user specified an engine.
C29_DefaultPdfEngineIffNoneGiven ==
    (pc = "spawned" /\ format = "pdf") =>
        LET isEngine(x) == x = "--pdf-engine" \/ startsWith(x, "--pdf-engine=")
            userEngine == \E k \in 1..Len(args) : origin[k] # "base" /\ isEngine(args[k])
            defaults == { k \in 1..Len(args) : origin[k] = "base" /\ isEngine(args[k]) }
            input == [file |-> IF exportFrom = "html" THEN "STDIN" ELSE inputFile,
                      format |-> IF exportFrom = "html" THEN "html" ELSE "markdown",
                      metadataFile |-> IF exportFrom = "html" THEN metadataFile ELSE "",
                      documentArgs |-> cliArgs]
            output == [file |-> outFile, format |-> format]
        IN  /\ userEngine => defaults = {}
            /\ \A k \in defaults : \A u \in 1..Len(args) : origin[u] # "base" => k < u
            /\ ~userEngine =>
                  \A lualatex, xelatex \in BOOLEAN :
                      SelectSeq(pandocArgs(input, output, split(extraArguments, "\n"),
                                           lualatex, xelatex).args, isEngine)
                      = IF lualatex THEN <<"--pdf-engine=lualatex">>
                        ELSE IF xelatex THEN <<"--pdf-engine=xelatex">>
                        ELSE <<>>

\* C30: the diagnostics string pandoc() resolves with (or rejects with) holds
\* all the text the subprocess wrote to stderr, for every interleaving of the
\* stdout 'end', stderr 'data' and output-file stat callbacks.
C30_DiagnosticsAreComplete ==
    (pc \in {"settled", "done"} /\ child.state = "running") =>
        promise.value.error = error \o join(child.stderr, "")

====
